---- MODULE Spec2Model ----
(***************************************************************************)
(* A model of the work-distribution substrate of Galois:                   *)
(* include/Galois/Runtime/WorkList.h (STLAdaptor and its LIFO / FIFO /     *)
(* PriQueue instances, ChunkedFIFO, OrderedByIntegerMetric,                *)
(* CacheByIntegerMetric) and of the for_each driver that runs over them.   *)
(*                                                                         *)
(* Every class is modelled by pure operators that follow its methods       *)
(* statement by statement, and by one action per call.  Each class has a   *)
(* specification of its own (SpecCF, SpecSTL, SpecOBIM, SpecCache, ...):   *)
(* the variables of the other classes stay unchanged in it.                *)
(***************************************************************************)
EXTENDS Integers, Sequences, FiniteSets

\* ------------------------------------------------------------------ bounds
\* Number of worker threads.
NumWorkers == 2
\* Item values are 1..MaxVal (value_type is an integer; 0 is value_type()).
MaxVal == 2
\* Total number of items a run hands to push, aborted and fill_initial.
MaxEnq == 4
\* Longest range handed to fill_initial.
MaxSeed == 3
\* ChunkedFIFO's template parameter ChunkSize (64 by default).
ChunkSize == 2
\* OrderedByIntegerMetric's constructor argument range.
OBRange == 1
\* CacheByIntegerMetric's template parameter size.
CacheSize == 2
\* Most aborts the operator of one for_each run signals.
MaxAbort == 2
\* Number of nodes of the timing graph.
TGNodes == 4
\* Number of nodes of the flow network of the discharge loop.
PFNodes == 3
\* Width in bits of the edge data of the flow network (int32_t, scaled).
CapBits == 3
\* Number of nodes of the flow network of the height update loop.
UHNodes == 4

Workers == 1..NumWorkers
Vals == 1..MaxVal
\* value_type(): the value a failed pop returns beside ok = false.
NoVal == 0
\* The null Chunk*.
NULL == 0
\* Chunk addresses: at any moment every allocated chunk but the drained
\* current chunk of a worker holds an item.
ChunkIds == 1..(MaxEnq + NumWorkers)

\* All sequences over S of length 0..n.
RECURSIVE SeqsUpTo(_, _)
SeqsUpTo(S, n) ==
  IF n = 0 THEN {<<>>}
  ELSE LET shorter == SeqsUpTo(S, n - 1)
       IN shorter \cup {Append(q, x) : q \in {r \in shorter : Len(r) = n - 1}, x \in S}

\* Number of occurrences of v in sequence q.
RECURSIVE Occ(_, _)
Occ(q, v) ==
  IF q = <<>> THEN 0
  ELSE (IF Head(q) = v THEN 1 ELSE 0) + Occ(Tail(q), v)

\* Sum of f over the finite set S.
RECURSIVE SumOver(_, _)
SumOver(S, f) ==
  IF S = {} THEN 0
  ELSE LET x == CHOOSE y \in S : TRUE IN f[x] + SumOver(S \ {x}, f)

ZeroCount == [v \in Vals |-> 0]

\* ------------------------------------------- the sequential containers
\* STLAdaptor's MQ parameter: std::stack (LIFO), std::queue behind
\* stdqueueFix (FIFO), std::priority_queue under std::less (PriQueue).
\* A container is the sequence of its elements in insertion order.
Kinds == {"LIFO", "FIFO", "PriQueue"}

\* MQ::push.
wl_push(kind, q, val) == Append(q, val)

\* MQ::empty.
wl_empty(kind, q) == q = <<>>

\* Mutant of top: the stack hands out its oldest element, as a queue does.
wl_topIndex_front(kind, q) ==
  IF kind \in {"LIFO", "FIFO"} THEN 1
  ELSE CHOOSE i \in 1..Len(q) :
         /\ \A j \in 1..Len(q) : q[j] <= q[i]
         /\ \A j \in 1..(i - 1) : q[j] < q[i]

\* Mutant of top: stdqueueFix::top returns Q::back().
wl_topIndex_back(kind, q) ==
  IF kind \in {"LIFO", "FIFO"} THEN Len(q)
  ELSE CHOOSE i \in 1..Len(q) :
         /\ \A j \in 1..Len(q) : q[j] <= q[i]
         /\ \A j \in 1..(i - 1) : q[j] < q[i]

\* Mutant of top: the priority queue's comparator is turned round.
wl_topIndex_least(kind, q) ==
  IF kind = "LIFO" THEN Len(q)
  ELSE IF kind = "FIFO" THEN 1
  ELSE CHOOSE i \in 1..Len(q) :
         /\ \A j \in 1..Len(q) : q[i] <= q[j]
         /\ \A j \in 1..(i - 1) : q[i] < q[j]

\* Position of the element MQ::top designates: the newest of a stack, the
\* front of a queue (stdqueueFix::top), the greatest of a priority queue.
wl_topIndex(kind, q) ==
  IF kind = "LIFO" THEN Len(q)
  ELSE IF kind = "FIFO" THEN 1
  ELSE CHOOSE i \in 1..Len(q) :
         /\ \A j \in 1..Len(q) : q[j] <= q[i]
         /\ \A j \in 1..(i - 1) : q[j] < q[i]

\* MQ::top (stdqueueFix::top is Q::front).
wl_top(kind, q) == q[wl_topIndex(kind, q)]

\* MQ::pop: removes the element top designates.
wl_pop(kind, q) ==
  LET i == wl_topIndex(kind, q)
  IN SubSeq(q, 1, i - 1) \o SubSeq(q, i + 1, Len(q))

\* ------------------------------------------- STLAdaptor<MQ, false>
\* The single-threaded adaptor (lock and unlock are no-ops): ChunkedFIFO's
\* Chunk is LIFO<T>::SingleThreadTy.
ST_push(kind, q, val) == wl_push(kind, q, val)

ST_pop(kind, q) ==
  IF wl_empty(kind, q)
  THEN [wl |-> q, ret |-> <<FALSE, NoVal>>]
  ELSE [wl |-> wl_pop(kind, q), ret |-> <<TRUE, wl_top(kind, q)>>]

ST_empty(kind, q) == wl_empty(kind, q)

\* fill_initial(ii, ee).
RECURSIVE ST_fill_initial(_, _, _)
ST_fill_initial(kind, q, range) ==
  IF range = <<>> THEN q
  ELSE ST_fill_initial(kind, wl_push(kind, q, Head(range)), Tail(range))

\* ------------------------------------------- STLAdaptor<MQ, true>
\* SimpleLock<int, true>: one word, 0 when free.  A state s of the
\* adaptor is its container wl and its lock word.
SL_free(s) == s.lock = 0

\* lock(): returns once it has set the free word.
SL_lock(s) == [s EXCEPT !.lock = 1]

\* unlock().
SL_unlock(s) == [s EXCEPT !.lock = 0]

STL_init == [wl |-> <<>>, lock |-> 0]

\* push(val), from the return of lock() on.
STL_push(kind, s, val) == SL_unlock([s EXCEPT !.wl = wl_push(kind, @, val)])

\* Mutant of pop: wl.pop() is left out, the returned item stays stored.
STL_pop_keeps(kind, s) ==
  IF wl_empty(kind, s.wl)
  THEN [s |-> SL_unlock(s), ret |-> <<FALSE, NoVal>>]
  ELSE [s |-> SL_unlock(s), ret |-> <<TRUE, wl_top(kind, s.wl)>>]

\* Mutant of pop: the return on an empty container leaves the lock taken.
STL_pop_keepsLock(kind, s) ==
  IF wl_empty(kind, s.wl)
  THEN [s |-> s, ret |-> <<FALSE, NoVal>>]
  ELSE LET retval == wl_top(kind, s.wl)
       IN [s |-> SL_unlock([s EXCEPT !.wl = wl_pop(kind, @)]), ret |-> <<TRUE, retval>>]

\* pop(), from the return of lock() on: the state and the returned pair.
STL_pop(kind, s) ==
  IF wl_empty(kind, s.wl)
  THEN [s |-> SL_unlock(s), ret |-> <<FALSE, NoVal>>]
  ELSE LET retval == wl_top(kind, s.wl)
       IN [s |-> SL_unlock([s EXCEPT !.wl = wl_pop(kind, @)]), ret |-> <<TRUE, retval>>]

\* empty(), from the return of lock() on.
STL_empty(kind, s) == [s |-> SL_unlock(s), ret |-> wl_empty(kind, s.wl)]

\* aborted(val), from the return of push's lock() on.
STL_aborted(kind, s, val) == STL_push(kind, s, val)

\* fill_initial(ii, ee): pushes without taking the lock.
RECURSIVE STL_fill_initial(_, _, _)
STL_fill_initial(kind, s, range) ==
  IF range = <<>> THEN s
  ELSE STL_fill_initial(kind, [s EXCEPT !.wl = wl_push(kind, @, Head(range))], Tail(range))

\* ------------------------------------------- OrderedByIntegerMetric
\* An OBIM state s: data (the array of size = range + 1 concurrent FIFO
\* buckets, indexed 0..range) and the per-worker cursor.
OB_size == OBRange + 1
BucketKind == "FIFO"

\* The user's Indexer, called as I(val, size): here a metric within
\* 0..range for every item.
OB_I(val, size) == (val - 1) % size

\* An Indexer that does not fit the range the OBIM was constructed with:
\* every metric it returns is greater than range.
OB_I_wide(val, size) == val + size - 1

\* OrderedByIntegerMetric(range, x): size(range + 1), data = new
\* ContainerTy[size], every cursor 0.
OB_init ==
  [data |-> [i \in 0..(OB_size - 1) |-> STL_init],
   cursor |-> [w \in Workers |-> 0]]

\* data[i].push(val) on a bucket inside the array: ContainerTy::push
\* with its lock() and unlock().
OB_bucket_push(s, i, val) ==
  [s EXCEPT !.data[i] = STL_push(BucketKind, SL_lock(@), val)]

\* data[i].pop() on a bucket inside the array.
OB_bucket_pop(s, i) ==
  LET r == STL_pop(BucketKind, SL_lock(s.data[i]))
  IN [s |-> [s EXCEPT !.data[i] = r.s], ret |-> r.ret]

OB_push(s, w, val) ==
  LET index == OB_I(val, OB_size)
      a == OB_bucket_push(s, index, val)
  IN IF a.cursor[w] > index THEN [a EXCEPT !.cursor[w] = index] ELSE a

\* Mutant of pop: every pop rescans from bucket 0.
OB_pop_begin_rescan(s, w) ==
  LET a == [s EXCEPT !.cursor[w] = 0]
  IN OB_bucket_pop(a, a.cursor[w])

\* pop() up to the loop: the wrap of the cursor and the first data[cur].pop().
OB_pop_begin(s, w) ==
  LET a == IF s.cursor[w] = OB_size THEN [s EXCEPT !.cursor[w] = 0] ELSE s
  IN OB_bucket_pop(a, a.cursor[w])

\* The loop test of pop().
OB_pop_again(s, w, ret) == s.cursor[w] < OB_size /\ ~ret[1]

\* ++cur of the loop body.
OB_pop_advance(s, w) == [s EXCEPT !.cursor[w] = @ + 1]

\* What data[size].pop() can yield: the access is one past the end of the
\* array (undefined behaviour).  It may find the words there to look like
\* an empty queue (not-ok), like a queue holding some value (ok with that
\* value), or never return (lock() spinning on a non-zero word).
OutOfBounds == {<<FALSE, NoVal>>} \cup {<<TRUE, x>> : x \in Vals}

\* The loop of pop() run to its end without interleaving, oob being what
\* data[size].pop() yields if the loop gets to it.
RECURSIVE OB_pop_loop(_, _, _, _)
OB_pop_loop(s, w, ret, oob) ==
  IF ~OB_pop_again(s, w, ret) THEN [s |-> s, ret |-> ret]
  ELSE LET a == OB_pop_advance(s, w)
       IN IF a.cursor[w] < OB_size
          THEN LET r == OB_bucket_pop(a, a.cursor[w])
               IN OB_pop_loop(r.s, w, r.ret, oob)
          ELSE OB_pop_loop(a, w, oob, oob)

\* pop() as one step: the state after the call and the returned pair.
OB_pop(s, w, oob) ==
  LET r == OB_pop_begin(s, w)
  IN OB_pop_loop(r.s, w, r.ret, oob)

\* empty() const.
OB_empty(s) == \A i \in 0..(OB_size - 1) : wl_empty(BucketKind, s.data[i].wl)

RECURSIVE OB_fill_initial(_, _, _)
OB_fill_initial(s, w, range) ==
  IF range = <<>> THEN s
  ELSE OB_fill_initial(OB_push(s, w, Head(range)), w, Tail(range))

OB_aborted(s, w, val) == OB_push(s, w, val)

\* ------------------------------------------- CacheByIntegerMetric
\* A cache-wrapper state s: cache (per worker, the slots 0..size-1, each
\* with its valid flag and its data) and parent (the worklist behind the
\* reference data: a concurrent STLAdaptor of the given kind).
Slots == 0..(CacheSize - 1)

\* The user's Indexer, called as I(val, size): here the item itself.
Cache_I(val, size) == val

\* __cacheTy(): valid(0); data is not initialised and not read while the
\* slot is not valid.
Cache_init ==
  [cache |-> [w \in Workers |-> [i \in Slots |-> [valid |-> FALSE, data |-> NoVal]]],
   parent |-> STL_init]

\* Mutant of the loop: the comparison is turned round, the lesser item is
\* carried on.
RECURSIVE Cache_push_loop_lesser(_, _, _)
Cache_push_loop_lesser(c, i, val) ==
  IF i >= CacheSize THEN [c |-> c, val |-> val, placed |-> FALSE]
  ELSE IF c[i].valid
       THEN IF Cache_I(val, CacheSize) > Cache_I(c[i].data, CacheSize)
            THEN Cache_push_loop_lesser([c EXCEPT ![i].data = val], i + 1, c[i].data)
            ELSE Cache_push_loop_lesser(c, i + 1, val)
       ELSE [c |-> [c EXCEPT ![i] = [valid |-> TRUE, data |-> val]],
             val |-> val, placed |-> TRUE]

\* The for loop of push from slot i on: the slots, the value carried out
\* of the loop, and whether an open slot took it (the early return).
RECURSIVE Cache_push_loop(_, _, _)
Cache_push_loop(c, i, val) ==
  IF i >= CacheSize THEN [c |-> c, val |-> val, placed |-> FALSE]
  ELSE IF c[i].valid
       THEN IF Cache_I(val, CacheSize) < Cache_I(c[i].data, CacheSize)
            THEN Cache_push_loop([c EXCEPT ![i].data = val], i + 1, c[i].data)
            ELSE Cache_push_loop(c, i + 1, val)
       ELSE [c |-> [c EXCEPT ![i] = [valid |-> TRUE, data |-> val]],
             val |-> val, placed |-> TRUE]

\* Mutant of push: the value carried out of the loop is not handed to the
\* parent.
Cache_push_drop(kind, s, w, val) ==
  [s EXCEPT !.cache[w] = Cache_push_loop(s.cache[w], 0, val).c]

\* Mutant of push: an open slot anywhere is taken before any comparison.
Cache_push_firstOpen(kind, s, w, val) ==
  IF \E i \in Slots : ~s.cache[w][i].valid
  THEN LET i == CHOOSE j \in Slots :
                  ~s.cache[w][j].valid /\ \A k \in Slots : ~s.cache[w][k].valid => j <= k
       IN [s EXCEPT !.cache[w][i] = [valid |-> TRUE, data |-> val]]
  ELSE LET r == Cache_push_loop(s.cache[w], 0, val)
       IN [s EXCEPT !.cache[w] = r.c,
                    !.parent = STL_push(kind, SL_lock(@), r.val)]

Cache_push(kind, s, w, val) ==
  LET r == Cache_push_loop(s.cache[w], 0, val)
  IN IF r.placed
     THEN [s EXCEPT !.cache[w] = r.c]
     ELSE [s EXCEPT !.cache[w] = r.c,
                    !.parent = STL_push(kind, SL_lock(@), r.val)]

\* Mutant of pop: the loop runs from the last slot down.
Cache_pop_lastValid(kind, s, w) ==
  IF \E i \in Slots : s.cache[w][i].valid
  THEN LET i == CHOOSE j \in Slots :
                  s.cache[w][j].valid /\ \A k \in Slots : s.cache[w][k].valid => j >= k
       IN [s |-> [s EXCEPT !.cache[w][i].valid = FALSE],
           ret |-> <<TRUE, s.cache[w][i].data>>]
  ELSE LET r == STL_pop(kind, SL_lock(s.parent))
       IN [s |-> [s EXCEPT !.parent = r.s], ret |-> r.ret]

\* The state after the call and the returned pair.
Cache_pop(kind, s, w) ==
  IF \E i \in Slots : s.cache[w][i].valid
  THEN LET i == CHOOSE j \in Slots :
                  s.cache[w][j].valid /\ \A k \in Slots : s.cache[w][k].valid => j <= k
       IN [s |-> [s EXCEPT !.cache[w][i].valid = FALSE],
           ret |-> <<TRUE, s.cache[w][i].data>>]
  ELSE LET r == STL_pop(kind, SL_lock(s.parent))
       IN [s |-> [s EXCEPT !.parent = r.s], ret |-> r.ret]

Cache_empty(kind, s, w) ==
  IF \E i \in Slots : s.cache[w][i].valid THEN FALSE
  ELSE STL_empty(kind, SL_lock(s.parent)).ret

Cache_aborted(kind, s, w, val) == Cache_push(kind, s, w, val)

Cache_fill_initial(kind, s, range) ==
  [s EXCEPT !.parent = STL_fill_initial(kind, @, range)]

\* ------------------------------------------------------- ChunkedFIFO
\* A ChunkedFIFO state s: Items (the global FIFO<Chunk*>, a sequence of
\* chunk addresses, NULL included), heap (each address: allocated or not,
\* and the chunk's stack), and the per-worker ProcRec fields next,
\* nextSize, curr.
ChunkKind == "LIFO"

FreeChunk == [live |-> FALSE, data |-> <<>>]
NewChunk == [live |-> TRUE, data |-> <<>>]

\* ProcRec(): next(0), nextSize(0), curr(0); no chunk allocated.
CF_init ==
  [Items |-> <<>>,
   heap |-> [c \in ChunkIds |-> FreeChunk],
   next |-> [w \in Workers |-> NULL],
   nextSize |-> [w \in Workers |-> 0],
   curr |-> [w \in Workers |-> NULL]]

\* new Chunk: the lowest free address.
CF_new(s) ==
  CHOOSE c \in ChunkIds :
    /\ ~s.heap[c].live
    /\ \A d \in ChunkIds : ~s.heap[d].live => c <= d

\* Mutant of push_next: the full-chunk test is off by one, so a chunk is
\* queued one item short.
CF_push_next_early(s, w, val) ==
  LET a == IF s.next[w] = NULL
           THEN LET c == CF_new(s)
                IN [s EXCEPT !.heap[c] = NewChunk, !.next[w] = c, !.nextSize[w] = 0]
           ELSE s
      b == IF a.nextSize[w] >= ChunkSize - 1
           THEN LET c == CF_new(a)
                IN [a EXCEPT !.Items = Append(@, a.next[w]),
                             !.heap[c] = NewChunk, !.next[w] = c, !.nextSize[w] = 0]
           ELSE a
  IN [b EXCEPT !.heap[b.next[w]].data = ST_push(ChunkKind, @, val),
               !.nextSize[w] = @ + 1]

\* Mutant of push_next: the chunk is queued as soon as the pushed item
\* fills it, instead of at the next call.
CF_push_next_eager(s, w, val) ==
  LET a == IF s.next[w] = NULL
           THEN LET c == CF_new(s)
                IN [s EXCEPT !.heap[c] = NewChunk, !.next[w] = c, !.nextSize[w] = 0]
           ELSE s
      b == [a EXCEPT !.heap[a.next[w]].data = ST_push(ChunkKind, @, val),
                     !.nextSize[w] = @ + 1]
  IN IF b.nextSize[w] = ChunkSize
     THEN [b EXCEPT !.Items = Append(@, b.next[w]), !.next[w] = NULL, !.nextSize[w] = 0]
     ELSE b

CF_push_next(s, w, val) ==
  LET a == IF s.next[w] = NULL
           THEN LET c == CF_new(s)
                IN [s EXCEPT !.heap[c] = NewChunk, !.next[w] = c, !.nextSize[w] = 0]
           ELSE s
      b == IF a.nextSize[w] = ChunkSize
           THEN LET c == CF_new(a)
                IN [a EXCEPT !.Items = Append(@, a.next[w]),
                             !.heap[c] = NewChunk, !.next[w] = c, !.nextSize[w] = 0]
           ELSE a
  IN [b EXCEPT !.heap[b.next[w]].data = ST_push(ChunkKind, @, val),
               !.nextSize[w] = @ + 1]

\* Mutant of fill_curr: with the global FIFO empty and no next chunk of
\* its own, the worker takes over the next chunk of another worker.
CF_fill_curr_steals(s, w) ==
  IF s.Items # <<>>
  THEN [s EXCEPT !.curr[w] = Head(s.Items), !.Items = Tail(@)]
  ELSE IF s.next[w] # NULL \/ Workers = {w}
  THEN [s EXCEPT !.curr[w] = s.next[w], !.next[w] = NULL]
  ELSE LET u == CHOOSE x \in Workers \ {w} :
                  \A y \in Workers \ {w} : s.next[y] # NULL => s.next[x] # NULL
       IN [s EXCEPT !.curr[w] = s.next[u], !.next[u] = NULL]

\* Mutant of fill_curr: the worker's own next chunk is never taken over.
CF_fill_curr_noTakeover(s, w) ==
  IF s.Items # <<>>
  THEN [s EXCEPT !.curr[w] = Head(s.Items), !.Items = Tail(@)]
  ELSE s

\* Mutant of fill_curr: the worker's own next chunk is taken over before
\* the global FIFO is tried.
CF_fill_curr_nextFirst(s, w) ==
  IF s.next[w] # NULL
  THEN [s EXCEPT !.curr[w] = s.next[w], !.next[w] = NULL]
  ELSE IF s.Items # <<>>
  THEN [s EXCEPT !.curr[w] = Head(s.Items), !.Items = Tail(@)]
  ELSE s

\* Items.pop() is the concurrent FIFO's pop: the front address, if any.
CF_fill_curr(s, w) ==
  IF s.Items # <<>>
  THEN [s EXCEPT !.curr[w] = Head(s.Items), !.Items = Tail(@)]
  ELSE [s EXCEPT !.curr[w] = s.next[w], !.next[w] = NULL]

\* Mutant of push_local: without a current chunk it does not try to fill
\* one and goes to push_next.
CF_push_local_noFill(s, w, val) ==
  IF s.curr[w] # NULL
  THEN [s EXCEPT !.heap[s.curr[w]].data = ST_push(ChunkKind, @, val)]
  ELSE CF_push_next(s, w, val)

CF_push_local(s, w, val) ==
  LET a == IF s.curr[w] = NULL THEN CF_fill_curr(s, w) ELSE s
  IN IF a.curr[w] # NULL
     THEN [a EXCEPT !.heap[a.curr[w]].data = ST_push(ChunkKind, @, val)]
     ELSE CF_push_next(a, w, val)

CF_push(s, w, val, toLocal) ==
  IF toLocal THEN CF_push_local(s, w, val) ELSE CF_push_next(s, w, val)

\* Mutant of pop: the chunk is deleted after every pop from it, with
\* whatever it still holds.
CF_pop_deletes(s, w) ==
  LET a == IF s.curr[w] = NULL THEN CF_fill_curr(s, w) ELSE s
      c == a.curr[w]
  IN IF c # NULL /\ ~ST_empty(ChunkKind, a.heap[c].data)
     THEN [s |-> [a EXCEPT !.heap[c] = FreeChunk, !.curr[w] = NULL],
           ret |-> ST_pop(ChunkKind, a.heap[c].data).ret]
     ELSE [s |-> [a EXCEPT !.curr[w] = NULL], ret |-> <<FALSE, NoVal>>]

\* Returns the state after the call and the returned pair.
RECURSIVE CF_pop(_, _)
CF_pop(s, w) ==
  LET a == IF s.curr[w] = NULL THEN CF_fill_curr(s, w) ELSE s
      c == a.curr[w]
  IN IF c # NULL
     THEN IF ST_empty(ChunkKind, a.heap[c].data)
          THEN CF_pop([a EXCEPT !.heap[c] = FreeChunk, !.curr[w] = NULL], w)
          ELSE LET r == ST_pop(ChunkKind, a.heap[c].data)
               IN [s |-> [a EXCEPT !.heap[c].data = r.wl], ret |-> r.ret]
     ELSE [s |-> a, ret |-> <<FALSE, NoVal>>]

\* assert(!p || q->empty()) of merge: "ok" when it holds, "fails" when it
\* does not, "null" when q->empty() is called on a null pointer.
CF_merge_assert(s, p, q) ==
  IF p = NULL THEN "ok"
  ELSE IF q = NULL THEN "null"
  ELSE IF ST_empty(ChunkKind, s.heap[q].data) THEN "ok"
  ELSE "fails"

\* ProcRec::merge(lhs, rhs) on the records of workers l and r: the
\* outcome of the first assertion that is not "ok", or "ok".
CF_merge(s, l, r) ==
  LET a == << CF_merge_assert(s, s.next[l], s.next[r]),
              CF_merge_assert(s, s.curr[l], s.curr[r]),
              CF_merge_assert(s, s.next[r], s.next[r]),
              CF_merge_assert(s, s.curr[r], s.curr[r]) >>
      bad == {i \in 1..4 : a[i] # "ok"}
  IN IF bad = {} THEN "ok"
     ELSE a[CHOOSE i \in bad : \A j \in bad : i <= j]

\* The pairs of records the teardown of the per-worker storage hands to
\* merge as (left, right).
CFMergePairs == {p \in Workers \X Workers : p[1] < p[2]}

\* Mutant of empty: the worker's next chunk is not looked at.
CF_empty_ignoresNext(s, w) ==
  IF s.curr[w] # NULL /\ ~ST_empty(ChunkKind, s.heap[s.curr[w]].data) THEN FALSE
  ELSE s.Items = <<>>

CF_empty(s, w) ==
  IF s.curr[w] # NULL /\ ~ST_empty(ChunkKind, s.heap[s.curr[w]].data) THEN FALSE
  ELSE IF s.next[w] # NULL /\ ~ST_empty(ChunkKind, s.heap[s.next[w]].data) THEN FALSE
  ELSE s.Items = <<>>

\* Mutant of aborted: the item is not stored.
CF_aborted_lost(s, w, val) == s

\* Mutant of aborted: the item is stored by push_next and again by push.
CF_aborted_twice(s, w, val) == CF_push_local(CF_push_next(s, w, val), w, val)

\* Mutant of aborted: it follows the push policy, as in the other worklists.
CF_aborted_asPush(s, w, val) == CF_push_local(s, w, val)

CF_aborted(s, w, val) == CF_push_next(s, w, val)

RECURSIVE CF_fill_loop(_, _, _)
CF_fill_loop(s, w, range) ==
  IF range = <<>> THEN s
  ELSE CF_fill_loop(CF_push_next(s, w, Head(range)), w, Tail(range))

\* Mutant of fill_initial: the seeded chunk is queued and stays in the
\* caller's next slot.
CF_fill_initial_keepsNext(s, w, range) ==
  LET a == CF_fill_loop(s, w, range)
  IN [a EXCEPT !.Items = Append(@, a.next[w])]

CF_fill_initial(s, w, range) ==
  LET a == CF_fill_loop(s, w, range)
  IN [a EXCEPT !.Items = Append(@, a.next[w]), !.next[w] = NULL]

\* ------------------------------------------- TimingGraph::computeTopoL
\* The least element of a non-empty set of integers: the next edge of an
\* adjacency list kept in ascending order of the neighbour.
Least(S) == CHOOSE x \in S : \A y \in S : x <= y

TNodes == 1..TGNodes

\* A timing graph state s: edges (pairs <<n, succ>>), per node the atomic
\* flag and topoL, wl (how often each node is in for_each's worklist),
\* per worker pc (where its operator call stands: the node n, the
\* neighbours still to visit, myTopoL) and, for the claims, written (how
\* often topoL of the node has been assigned).
TG_preds(s, n) == {e[1] : e \in {d \in s.edges : d[2] = n}}

TG_succs(s, n) == {e[2] : e \in {d \in s.edges : d[1] = n}}

\* The end points collected into fFront: the nodes without in-edges.
TG_fFront(edges) == {n \in TNodes : ~\E e \in edges : e[2] = n}

TGIdle == [at |-> "idle", n |-> 0, rest |-> {}, my |-> 0]

\* No graph constructed.
TG_fresh ==
  [edges |-> {}, flag |-> [n \in TNodes |-> FALSE], topoL |-> [n \in TNodes |-> 0],
   wl |-> [n \in TNodes |-> 0], pc |-> [w \in Workers |-> TGIdle],
   written |-> [n \in TNodes |-> 0]]

\* computeTopoL up to the start of its for_each: initFlag(true) has run
\* and the loop's initial items are the nodes of fFront.
TG_start(edges) ==
  [TG_fresh EXCEPT !.edges = edges,
                   !.flag = [n \in TNodes |-> TRUE],
                   !.wl = [n \in TNodes |-> IF n \in TG_fFront(edges) THEN 1 ELSE 0]]

\* Mutant of the level update: the predecessor's level is taken as is.
TG_nextLevel_same(myTopoL, predTopoL) ==
  IF myTopoL <= predTopoL THEN predTopoL ELSE myTopoL

\* myTopoL after the loop body has looked at a done predecessor.
TG_nextLevel(myTopoL, predTopoL) ==
  IF myTopoL <= predTopoL THEN predTopoL + 1 ELSE myTopoL

\* The edges the level check reports as "Topo error".
TG_topoErrors(s) == {e \in s.edges : s.topoL[e[1]] >= s.topoL[e[2]]}

\* ---------------------------------------------- PreflowPush::discharge
PNodes == 1..PFNodes
PF_source == 1
PF_sink == PFNodes
\* Graph::edge_data_type is a signed integer of CapBits bits.
CapMax == 2^(CapBits - 1) - 1

\* Conversion of a 64-bit value to the edge data type.
Cap_narrow(x) == ((x + 2^(CapBits - 1)) % 2^CapBits) - 2^(CapBits - 1)

\* Every ordered pair of distinct nodes is an edge (the input graph holds
\* the reverse of each edge, with capacity 0 where the file has none).
PFEdges == {e \in PNodes \X PNodes : e[1] # e[2]}

\* The adjacency list of src, sorted by destination: positions 0, 1, ...
PF_degree == PFNodes - 1
PF_edgeDst(src, i) == IF i + 1 < src THEN i + 1 ELSE i + 2

Min2(a, b) == IF a <= b THEN a ELSE b

PFIdle == [at |-> "idle", src |-> 0, current |-> 0]

\* A flow network state s: cap per edge, per node excess, height and
\* current, wl (how often each node is in the worklist), started (the
\* preflow has been initialised), pc (where the running call of discharge
\* stands: its node and the local variable current), asserted (the
\* assertion of relabel has failed).
PF_fresh ==
  [cap |-> [e \in PFEdges |-> 0],
   excess |-> [n \in PNodes |-> 0],
   height |-> [n \in PNodes |-> IF n = PF_source THEN PFNodes ELSE 1],
   current |-> [n \in PNodes |-> 0],
   wl |-> [n \in PNodes |-> 0],
   started |-> FALSE,
   pc |-> PFIdle,
   asserted |-> FALSE]

\* reduceCapacity(ii, src, dst, amount): cap1 -= amount; cap2 += amount.
PF_reduceCapacity(cap, src, dst, amount) ==
  [cap EXCEPT ![<<src, dst>>] = Cap_narrow(@ - amount),
              ![<<dst, src>>] = Cap_narrow(@ + amount)]

\* initializePreflow: every edge of the source is saturated.
RECURSIVE PF_initializePreflow(_, _)
PF_initializePreflow(s, i) ==
  IF i >= PF_degree THEN [s EXCEPT !.started = TRUE]
  ELSE LET dst == PF_edgeDst(PF_source, i)
           cap == s.cap[<<PF_source, dst>>]
       IN PF_initializePreflow(
            [s EXCEPT !.cap = PF_reduceCapacity(@, PF_source, dst, cap),
                      !.excess[dst] = @ + cap,
                      !.wl[dst] = IF cap > 0 THEN @ + 1 ELSE @], i + 1)

\* The "Push flow" block of discharge on the edge src -> dst: the state
\* after it and whether dst was given to ctx.push.
PF_pushFlow(s, src, dst) ==
  LET amount == Min2(s.excess[src], s.cap[<<src, dst>>])
      add == dst # PF_sink /\ dst # PF_source /\ s.excess[dst] = 0
  IN [s |-> [s EXCEPT !.cap = PF_reduceCapacity(@, src, dst, amount),
                      !.wl[dst] = IF add THEN @ + 1 ELSE @,
                      !.excess[src] = @ - amount,
                      !.excess[dst] = @ + amount],
      add |-> add]

\* The edges of src relabel looks at: those of positive capacity.
PF_residual(s, src) == {i \in 0..(PF_degree - 1) : s.cap[<<src, PF_edgeDst(src, i)>>] > 0}

\* relabel(src).  With no edge of positive capacity the assertion fails.
PF_relabel(s, src) ==
  LET open == PF_residual(s, src)
  IN IF open = {} THEN [s EXCEPT !.asserted = TRUE]
     ELSE LET minEdge == CHOOSE i \in open :
                           \A j \in open :
                             \/ s.height[PF_edgeDst(src, i)] < s.height[PF_edgeDst(src, j)]
                             \/ /\ s.height[PF_edgeDst(src, i)] = s.height[PF_edgeDst(src, j)]
                                /\ i <= j
              minHeight == s.height[PF_edgeDst(src, minEdge)] + 1
          IN IF minHeight < PFNodes
             THEN [s EXCEPT !.height[src] = minHeight, !.current[src] = minEdge]
             ELSE [s EXCEPT !.height[src] = PFNodes]

\* --------------------------------- PreflowPush::UpdateHeights (useCAS)
UNodes == 1..UHNodes
UH_sink == 1

UHIdle == [at |-> "idle", src |-> 0, rest |-> {}, dst |-> 0,
           newHeight |-> 0, oldHeight |-> 0, tries |-> 0]

\* A state s of the loop: res (the pairs <<src, dst>> such that dst is a
\* neighbour of src and the edge dst -> src has capacity left), per node
\* the height, wl (how often each node is in the worklist), per worker
\* pc (where its operator call stands).
UH_fresh ==
  [res |-> {}, height |-> [n \in UNodes |-> UHNodes],
   wl |-> [n \in UNodes |-> 0], pc |-> [w \in Workers |-> UHIdle]]

\* globalRelabel up to the start of its for_each: ResetHeights has run
\* and the loop's initial item is the sink.
UH_start(res) ==
  [UH_fresh EXCEPT !.res = res,
                   !.height = [n \in UNodes |-> IF n = UH_sink THEN 0 ELSE UHNodes],
                   !.wl = [n \in UNodes |-> IF n = UH_sink THEN 1 ELSE 0]]

\* Mutant of the compare-and-swap: the new value is stored unconditionally.
UH_cas_blind(height, dst, oldHeight, newHeight) ==
  [ok |-> TRUE, height |-> [height EXCEPT ![dst] = newHeight]]

\* __sync_bool_compare_and_swap(&node.height, oldHeight, newHeight).
UH_cas(height, dst, oldHeight, newHeight) ==
  IF height[dst] = oldHeight
  THEN [ok |-> TRUE, height |-> [height EXCEPT ![dst] = newHeight]]
  ELSE [ok |-> FALSE, height |-> height]

\* ------------------------------------------------------------ state
VARIABLES
  cf,          \* the ChunkedFIFO
  pushToLocal, \* its template parameter pushToLocal
  cfLog,       \* history of the calls made on it
  stl,         \* the concurrent STLAdaptor: container and lock word
  stlKind,     \* which of LIFO, FIFO, PriQueue it is
  stlPc,       \* per worker: the call it is inside of, past lock()
  stlLog,      \* history of the calls made on it
  ob,          \* the OrderedByIntegerMetric
  obPc,        \* per worker: where it is inside pop(), and pop's ret
  obLog,       \* history of the calls made on it
  cw,          \* the CacheByIntegerMetric and its parent worklist
  cwKind,      \* which of LIFO, FIFO, PriQueue the parent is
  cwLog,       \* history of the calls made on it
  fe,          \* for_each: per worker its position, its item, its empty flag
  feLog,       \* the seed items and the operator invocations of the loop
  st,          \* a single-threaded STLAdaptor: its container
  stKind,      \* which of LIFO, FIFO, PriQueue it is
  stLog,       \* the items enqueued in it and returned by it, in order
  sanity,      \* the two-pusher scenario on the concurrent LIFO
  tg,          \* the timing graph under computeTopoL
  pf,          \* the flow network under the discharge loop
  uh           \* the flow network under the height update loop

cfVars == <<cf, pushToLocal, cfLog>>
stlVars == <<stl, stlKind, stlPc, stlLog>>
obVars == <<ob, obPc, obLog>>
cwVars == <<cw, cwKind, cwLog>>
feVars == <<fe, feLog>>
seqVars == <<st, stKind, stLog>>
appVars == <<tg, pf, uh>>
vars == <<cfVars, stlVars, obVars, cwVars, feVars, seqVars, sanity, appVars>>

\* What a worker's latest call was: its name, its argument (push and
\* aborted), whether it returned ok and, for a pop that directly followed
\* an aborted(v) call of the same worker, whether it returned v ("hit") or
\* not ("miss"); "na" for every other call.
NoCall == [op |-> "none", val |-> NoVal, ok |-> FALSE, after |-> "na"]

CFLogInit ==
  [pushed |-> ZeroCount,   \* items given to push, aborted and fill_initial
   popped |-> ZeroCount,   \* items returned by successful pops
   abortedCalls |-> 0,
   seeded |-> FALSE,
   last |-> [w \in Workers |-> NoCall]]

Enqueued(log) == SumOver(Vals, log.pushed)

\* Items of value v held in chunk address c.
InChunk(s, c, v) == IF c = NULL THEN 0 ELSE Occ(s.heap[c].data, v)

\* Items of value v held anywhere in the ChunkedFIFO.
CFHeld(s, v) ==
  SumOver(1..Len(s.Items), [i \in 1..Len(s.Items) |-> InChunk(s, s.Items[i], v)])
  + SumOver(Workers, [w \in Workers |-> InChunk(s, s.curr[w], v) + InChunk(s, s.next[w], v)])

\* A worker outside every call.
Idle == [op |-> "idle", val |-> NoVal]

STLLogInit ==
  [pushed |-> ZeroCount,   \* items given to push, aborted and fill_initial
   popped |-> ZeroCount,   \* items returned by successful pops
   abortedCalls |-> 0,
   seeded |-> FALSE,
   calls |-> 0,
   missed |-> FALSE]       \* some pop has returned not-ok

\* The state right after construction, each class with default parameters.
CFFresh == cf = CF_init /\ cfLog = CFLogInit
STLFresh == stl = STL_init /\ stlPc = [w \in Workers |-> Idle] /\ stlLog = STLLogInit

\* A worker outside every OBIM call.
OBIdle == [op |-> "idle", ret |-> <<FALSE, NoVal>>]

OBLogInit ==
  [pushed |-> ZeroCount,   \* items given to push, aborted and fill_initial
   popped |-> ZeroCount,   \* items returned by successful pops
   abortedCalls |-> 0,
   seeded |-> FALSE,
   calls |-> 0,
   lowered |-> "never"]    \* what lowered a cursor last: "push" or "wrap"

OBFresh == ob = OB_init /\ obPc = [w \in Workers |-> OBIdle] /\ obLog = OBLogInit

CWLogInit ==
  [pushed |-> ZeroCount,   \* items given to push, aborted and fill_initial
   popped |-> ZeroCount,   \* items returned by successful pops
   abortedCalls |-> 0,
   seeded |-> FALSE,
   calls |-> 0,
   drained |-> [w \in Workers |-> FALSE]]  \* w's latest call: a pop, not-ok

CWFresh == cw = Cache_init /\ cwLog = CWLogInit

\* for_each before it is called: no worker spawned, nothing seeded.
FE_init ==
  [pc |-> [w \in Workers |-> "new"],
   item |-> [w \in Workers |-> NoVal],
   sawEmpty |-> [w \in Workers |-> FALSE],
   buf |-> [w \in Workers |-> <<>>],     \* ctx: the buffered pushes
   broke |-> FALSE]                     \* ctx.breakLoop() has been called

FELogInit ==
  [seeds |-> ZeroCount,     \* the initial items, by value
   invoked |-> ZeroCount,   \* the operator invocations, by item value
   ran |-> [w \in Workers |-> FALSE],   \* w has invoked the operator
   committed |-> ZeroCount, \* invocations that returned normally, by item
   aborted |-> ZeroCount,   \* invocations that aborted, by item
   flushed |-> ZeroCount,   \* buffered pushes given to W.push, by value
   ctxPushes |-> 0]         \* calls of ctx.push

FEFresh == fe = FE_init /\ feLog = FELogInit

STLogInit ==
  [in |-> <<>>,     \* the items given to fill_initial and push, in order
   out |-> <<>>,    \* the items returned by successful pops, in order
   seeded |-> 0]    \* how many of them fill_initial enqueued

SeqFresh == st = <<>> /\ stLog = STLogInit

\* The scenario before it starts: what each worker has yet to push, the
\* items the draining worker was returned, and whether it has seen not-ok.
SanityScript(w) == IF w = 1 THEN <<1, 2, 3>> ELSE IF w = 2 THEN <<4, 5>> ELSE <<>>

Sanity_init ==
  [left |-> [w \in Workers |-> SanityScript(w)],
   out |-> <<>>,
   drained |-> FALSE]

\* The variables of the components a specification leaves alone.
AppFresh == tg = TG_fresh /\ pf = PF_fresh /\ uh = UH_fresh
RestFresh == SeqFresh /\ stKind = "FIFO" /\ sanity = Sanity_init /\ AppFresh

InitCF ==
  /\ CFFresh /\ pushToLocal \in BOOLEAN
  /\ STLFresh /\ stlKind = "LIFO"
  /\ OBFresh
  /\ CWFresh /\ cwKind = "PriQueue"
  /\ FEFresh
  /\ RestFresh

\* fill_initial(ii, ee): the single-threaded seeding of a fresh worklist.
CFFillInitial(w, range) ==
  /\ ~cfLog.seeded
  /\ \A u \in Workers : cfLog.last[u].op = "none"
  /\ cf' = CF_fill_initial(cf, w, range)
  /\ cfLog' = [cfLog EXCEPT
       !.pushed = [v \in Vals |-> @[v] + Occ(range, v)],
       !.seeded = TRUE,
       !.last[w] = [op |-> "fill", val |-> NoVal, ok |-> TRUE, after |-> "na"]]
  /\ UNCHANGED <<pushToLocal, stlVars, obVars, cwVars, feVars, seqVars, sanity, appVars>>

CFPush(w, val) ==
  /\ Enqueued(cfLog) < MaxEnq
  /\ cf' = CF_push(cf, w, val, pushToLocal)
  /\ cfLog' = [cfLog EXCEPT
       !.pushed[val] = @ + 1,
       !.last[w] = [op |-> "push", val |-> val, ok |-> TRUE, after |-> "na"]]
  /\ UNCHANGED <<pushToLocal, stlVars, obVars, cwVars, feVars, seqVars, sanity, appVars>>

CFPop(w) ==
  LET r == CF_pop(cf, w)
      before == cfLog.last[w]
  IN /\ cf' = r.s
     /\ cfLog' = [cfLog EXCEPT
          !.popped = IF r.ret[1] THEN [@ EXCEPT ![r.ret[2]] = @ + 1] ELSE @,
          !.last[w] = [op |-> "pop", val |-> NoVal, ok |-> r.ret[1],
                       after |-> IF before.op # "aborted" THEN "na"
                                 ELSE IF r.ret = <<TRUE, before.val>> THEN "hit"
                                 ELSE "miss"]]
     /\ UNCHANGED <<pushToLocal, stlVars, obVars, cwVars, feVars, seqVars, sanity, appVars>>

CFAborted(w, val) ==
  /\ Enqueued(cfLog) < MaxEnq
  /\ cf' = CF_aborted(cf, w, val)
  /\ cfLog' = [cfLog EXCEPT
       !.pushed[val] = @ + 1,
       !.abortedCalls = 1,
       !.last[w] = [op |-> "aborted", val |-> val, ok |-> TRUE, after |-> "na"]]
  /\ UNCHANGED <<pushToLocal, stlVars, obVars, cwVars, feVars, seqVars, sanity, appVars>>

NextCF ==
  \/ \E w \in Workers, range \in SeqsUpTo(Vals, MaxSeed) : CFFillInitial(w, range)
  \/ \E w \in Workers, val \in Vals : CFPush(w, val)
  \/ \E w \in Workers : CFPop(w)
  \/ \E w \in Workers, val \in Vals : CFAborted(w, val)

SpecCF == InitCF /\ [][NextCF]_vars

\* Every worker keeps calling pop; push, aborted and fill_initial are
\* called any number of times (at most MaxEnq items in all) or not at all.
SpecCFDrain ==
  /\ InitCF /\ [][NextCF]_vars
  /\ \A w \in Workers : WF_vars(CFPop(w))

\* ------------------------------------------------ STLAdaptor: calls
InitSTL ==
  /\ STLFresh /\ stlKind \in Kinds
  /\ CFFresh /\ pushToLocal = TRUE
  /\ OBFresh
  /\ CWFresh /\ cwKind = "PriQueue"
  /\ FEFresh
  /\ RestFresh

\* Items of value v that a push or aborted call past lock() has yet to store.
STLInFlight(v) ==
  Cardinality({w \in Workers : stlPc[w].op \in {"push", "aborted"} /\ stlPc[w].val = v})

\* fill_initial on the fresh adaptor, before any worker runs.
STLFillInitial(range) ==
  /\ ~stlLog.seeded /\ stlLog.calls = 0
  /\ stl' = STL_fill_initial(stlKind, stl, range)
  /\ stlLog' = [stlLog EXCEPT
       !.pushed = [v \in Vals |-> @[v] + Occ(range, v)],
       !.seeded = TRUE]
  /\ UNCHANGED <<stlKind, stlPc, cfVars, obVars, cwVars, feVars, seqVars, sanity, appVars>>

\* Worker w calls op and its lock() returns: the lock word was free.
STLEnter(w, op, val) ==
  /\ stlPc[w] = Idle
  /\ SL_free(stl)
  /\ op \in {"push", "aborted"} => SumOver(Vals, stlLog.pushed) < MaxEnq
  /\ stl' = SL_lock(stl)
  /\ stlPc' = [stlPc EXCEPT ![w] = [op |-> op, val |-> val]]
  /\ stlLog' = [stlLog EXCEPT
       !.calls = 1,
       !.pushed = IF op \in {"push", "aborted"} THEN [@ EXCEPT ![val] = @ + 1] ELSE @,
       !.abortedCalls = IF op = "aborted" THEN 1 ELSE @]
  /\ UNCHANGED <<stlKind, cfVars, obVars, cwVars, feVars, seqVars, sanity, appVars>>

\* The rest of push(val); aborted(val) is push(val).
STLPushBody(w) ==
  /\ stlPc[w].op \in {"push", "aborted"}
  /\ stl' = IF stlPc[w].op = "aborted"
            THEN STL_aborted(stlKind, stl, stlPc[w].val)
            ELSE STL_push(stlKind, stl, stlPc[w].val)
  /\ stlPc' = [stlPc EXCEPT ![w] = Idle]
  /\ UNCHANGED <<stlKind, stlLog, cfVars, obVars, cwVars, feVars, seqVars, sanity, appVars>>

\* The rest of pop().
STLPopBody(w) ==
  /\ stlPc[w].op = "pop"
  /\ LET r == STL_pop(stlKind, stl)
     IN /\ stl' = r.s
        /\ stlLog' = [stlLog EXCEPT
             !.popped = IF r.ret[1] THEN [@ EXCEPT ![r.ret[2]] = @ + 1] ELSE @,
             !.missed = @ \/ ~r.ret[1]]
  /\ stlPc' = [stlPc EXCEPT ![w] = Idle]
  /\ UNCHANGED <<stlKind, cfVars, obVars, cwVars, feVars, seqVars, sanity, appVars>>

\* The rest of empty().
STLEmptyBody(w) ==
  /\ stlPc[w].op = "empty"
  /\ stl' = STL_empty(stlKind, stl).s
  /\ stlPc' = [stlPc EXCEPT ![w] = Idle]
  /\ UNCHANGED <<stlKind, stlLog, cfVars, obVars, cwVars, feVars, seqVars, sanity, appVars>>

NextSTL ==
  \/ \E range \in SeqsUpTo(Vals, MaxSeed) : STLFillInitial(range)
  \/ \E w \in Workers, val \in Vals : STLEnter(w, "push", val)
  \/ \E w \in Workers, val \in Vals : STLEnter(w, "aborted", val)
  \/ \E w \in Workers : STLEnter(w, "pop", NoVal)
  \/ \E w \in Workers : STLEnter(w, "empty", NoVal)
  \/ \E w \in Workers : STLPushBody(w)
  \/ \E w \in Workers : STLPopBody(w)
  \/ \E w \in Workers : STLEmptyBody(w)

SpecSTL == InitSTL /\ [][NextSTL]_vars

\* ------------------------------------------------ STLAdaptor: claims
\* C2: with no aborted call, value by value, the items returned by
\* successful pops plus the items in the container plus the items a push
\* past lock() has yet to store are as many as the items given to push
\* and fill_initial; when the container is empty and no push is in
\* progress every enqueued item has been returned exactly once.
C2_STLPreservation ==
  stlLog.abortedCalls = 0 =>
    /\ \A v \in Vals :
         stlLog.popped[v] + Occ(stl.wl, v) + STLInFlight(v) = stlLog.pushed[v]
    /\ (stl.wl = <<>> /\ \A v \in Vals : STLInFlight(v) = 0)
         => stlLog.popped = stlLog.pushed

\* C2 witness: a seeded adaptor that two values went through has been
\* drained by pops, with no aborted call.
C2_Witness ==
  /\ stlLog.abortedCalls = 0
  /\ stlLog.seeded
  /\ stl.wl = <<>>
  /\ \A w \in Workers : stlPc[w] = Idle
  /\ \A v \in Vals : stlLog.popped[v] > 0
  /\ SumOver(Vals, stlLog.popped) = MaxEnq

\* The step is the body of a pop() of some worker.
STLPopStep == \E w \in Workers : stlPc[w].op = "pop" /\ stlPc'[w] = Idle

\* The pair that pop() returns, read off the count of returned items.
STLPopReturned ==
  IF \E x \in Vals : stlLog'.popped[x] > stlLog.popped[x]
  THEN <<TRUE, CHOOSE x \in Vals : stlLog'.popped[x] > stlLog.popped[x]>>
  ELSE <<FALSE, NoVal>>

\* C14: the container lists the items pushed and not yet popped in the
\* order in which the pushes took effect.  A pop of the LIFO adapter on a
\* non-empty container returns the last of them and removes it; on an
\* empty one it returns not-ok and leaves it empty.
C14_LIFOOrder ==
  [][(stlKind = "LIFO" /\ STLPopStep) =>
       IF stl.wl = <<>>
       THEN STLPopReturned = <<FALSE, NoVal>> /\ stl'.wl = <<>>
       ELSE /\ STLPopReturned = <<TRUE, stl.wl[Len(stl.wl)]>>
            /\ stl'.wl = SubSeq(stl.wl, 1, Len(stl.wl) - 1)]_vars

\* C14 witness: of the two different items a seeded LIFO was given, a pop
\* has returned one and the other is still held.
C14_Witness ==
  /\ stlKind = "LIFO"
  /\ stlLog.seeded
  /\ SumOver(Vals, stlLog.pushed) = 2
  /\ stlLog.popped = [v \in Vals |-> IF v = 2 THEN 1 ELSE 0]
  /\ stl.wl = <<1>>
  /\ \A w \in Workers : stlPc[w] = Idle

\* C16: a pop of the PriQueue adapter on a non-empty container returns an
\* item of the container that no item of the container exceeds (std::less
\* is the comparator) and removes one copy of it; on an empty one it
\* returns not-ok.
C16_PriQueueOrder ==
  [][(stlKind = "PriQueue" /\ STLPopStep) =>
       IF stl.wl = <<>>
       THEN STLPopReturned = <<FALSE, NoVal>>
       ELSE /\ STLPopReturned[1]
            /\ \A i \in 1..Len(stl.wl) : stl.wl[i] <= STLPopReturned[2]
            /\ \A v \in Vals :
                 Occ(stl'.wl, v)
                   = Occ(stl.wl, v) - (IF v = STLPopReturned[2] THEN 1 ELSE 0)]_vars

\* C16 witness: of the three items a seeded PriQueue was given, a pop has
\* returned the greatest and the two lesser ones are still held.
C16_Witness ==
  /\ stlKind = "PriQueue"
  /\ stlLog.seeded
  /\ SumOver(Vals, stlLog.pushed) = 3
  /\ stlLog.popped = [v \in Vals |-> IF v = 2 THEN 1 ELSE 0]
  /\ stl.wl = <<1, 1>>
  /\ \A w \in Workers : stlPc[w] = Idle

\* The workers past the lock() of a call and not yet returned.
STLInside == {w \in Workers : stlPc[w] # Idle}

\* C23: the lock word is taken exactly while one worker is inside a call,
\* so at most one worker is inside the container and the lock is free
\* when no call is in progress; from the return of lock() on, each of
\* push, pop (on an empty container too) and empty ends with the lock
\* free, empty leaving the container as it is; and aborted(v) gives the
\* state that push(v) gives.
C23_LockDiscipline ==
  /\ Cardinality(STLInside) <= 1
  /\ SL_free(stl) <=> STLInside = {}
  /\ ~SL_free(stl) =>
       /\ SL_free(STL_pop(stlKind, stl).s)
       /\ SL_free(STL_empty(stlKind, stl).s)
       /\ STL_empty(stlKind, stl).s.wl = stl.wl
       /\ \A v \in Vals :
            /\ SL_free(STL_push(stlKind, stl, v))
            /\ STL_aborted(stlKind, stl, v) = STL_push(stlKind, stl, v)

\* C23 witness: a pop on the empty container has returned not-ok, an
\* aborted call has stored its item, and a worker holds the lock inside a
\* call while the other is outside.
C23_Witness ==
  /\ stlLog.missed
  /\ stlLog.abortedCalls = 1
  /\ stl.wl # <<>>
  /\ ~SL_free(stl)
  /\ Cardinality(STLInside) = 1

\* ------------------------------------ STLAdaptor<MQ, false>: calls
\* One thread on the non-concurrent specialization.
InitSeq ==
  /\ SeqFresh /\ stKind \in Kinds /\ AppFresh
  /\ sanity = Sanity_init
  /\ CFFresh /\ pushToLocal = TRUE
  /\ STLFresh /\ stlKind = "LIFO"
  /\ OBFresh
  /\ CWFresh /\ cwKind = "PriQueue"
  /\ FEFresh

SeqFillInitial(range) ==
  /\ stLog = STLogInit
  /\ range # <<>>
  /\ st' = ST_fill_initial(stKind, st, range)
  /\ stLog' = [stLog EXCEPT !.in = range, !.seeded = Len(range)]
  /\ UNCHANGED <<stKind, sanity, cfVars, stlVars, obVars, cwVars, feVars, appVars>>

SeqPush(val) ==
  /\ Len(stLog.in) < MaxEnq
  /\ st' = ST_push(stKind, st, val)
  /\ stLog' = [stLog EXCEPT !.in = Append(@, val)]
  /\ UNCHANGED <<stKind, sanity, cfVars, stlVars, obVars, cwVars, feVars, appVars>>

SeqPop ==
  /\ LET r == ST_pop(stKind, st)
     IN /\ st' = r.wl
        /\ stLog' = IF r.ret[1] THEN [stLog EXCEPT !.out = Append(@, r.ret[2])] ELSE stLog
  /\ UNCHANGED <<stKind, sanity, cfVars, stlVars, obVars, cwVars, feVars, appVars>>

NextSeq ==
  \/ \E range \in SeqsUpTo(Vals, MaxSeed) : SeqFillInitial(range)
  \/ \E val \in Vals : SeqPush(val)
  \/ SeqPop

SpecSeq == InitSeq /\ [][NextSeq]_vars

\* ------------------------------------ STLAdaptor<MQ, false>: claims
\* C15: in the FIFO adapter the items returned so far followed by the
\* items still held are the items enqueued (by fill_initial and push), in
\* the order of their enqueueing: every pop returns the least recently
\* enqueued item not yet popped, and fill_initial over a sequence followed
\* by as many pops yields that sequence.
C15_FIFOOrder ==
  stKind = "FIFO" => stLog.out \o st = stLog.in

\* C15 witness: the FIFO was seeded with a longest range that starts with
\* two different items, and pops have returned that range.
C15_Witness ==
  /\ stKind = "FIFO"
  /\ stLog.seeded = MaxSeed
  /\ Len(stLog.in) = MaxSeed
  /\ stLog.in[1] # stLog.in[2]
  /\ stLog.out = stLog.in
  /\ st = <<>>

\* ------------------------------------ the LIFO sanity scenario: calls
\* On a concurrent LIFO, worker 1 pushes 1, 2, 3 and worker 2 pushes 4, 5;
\* when all that is done worker 1 pops until not-ok.
InitSanity ==
  /\ sanity = Sanity_init
  /\ STLFresh /\ stlKind = "LIFO"
  /\ SeqFresh /\ stKind = "FIFO" /\ AppFresh
  /\ CFFresh /\ pushToLocal = TRUE
  /\ OBFresh
  /\ CWFresh /\ cwKind = "PriQueue"
  /\ FEFresh

SanityPushed == \A w \in Workers : sanity.left[w] = <<>> /\ stlPc[w] = Idle

\* Worker w calls push with the next item of its list; lock() returns.
SanityPushEnter(w) ==
  /\ sanity.left[w] # <<>>
  /\ stlPc[w] = Idle
  /\ SL_free(stl)
  /\ stl' = SL_lock(stl)
  /\ stlPc' = [stlPc EXCEPT ![w] = [op |-> "push", val |-> Head(sanity.left[w])]]
  /\ sanity' = [sanity EXCEPT !.left[w] = Tail(@)]
  /\ UNCHANGED <<stlKind, stlLog, seqVars, cfVars, obVars, cwVars, feVars, appVars>>

\* The rest of that push.
SanityPushBody(w) ==
  /\ stlPc[w].op = "push"
  /\ stl' = STL_push(stlKind, stl, stlPc[w].val)
  /\ stlPc' = [stlPc EXCEPT ![w] = Idle]
  /\ UNCHANGED <<stlKind, stlLog, sanity, seqVars, cfVars, obVars, cwVars, feVars, appVars>>

\* The draining worker calls pop(); lock() returns.
SanityPopEnter ==
  /\ SanityPushed
  /\ ~sanity.drained
  /\ SL_free(stl)
  /\ stl' = SL_lock(stl)
  /\ stlPc' = [stlPc EXCEPT ![1] = [op |-> "pop", val |-> NoVal]]
  /\ UNCHANGED <<stlKind, stlLog, sanity, seqVars, cfVars, obVars, cwVars, feVars, appVars>>

\* The rest of that pop.
SanityPopBody ==
  /\ stlPc[1].op = "pop"
  /\ LET r == STL_pop(stlKind, stl)
     IN /\ stl' = r.s
        /\ sanity' = IF r.ret[1]
                     THEN [sanity EXCEPT !.out = Append(@, r.ret[2])]
                     ELSE [sanity EXCEPT !.drained = TRUE]
  /\ stlPc' = [stlPc EXCEPT ![1] = Idle]
  /\ UNCHANGED <<stlKind, stlLog, seqVars, cfVars, obVars, cwVars, feVars, appVars>>

NextSanity ==
  \/ \E w \in Workers : SanityPushEnter(w)
  \/ \E w \in Workers : SanityPushBody(w)
  \/ SanityPopEnter
  \/ SanityPopBody

SpecSanity == InitSanity /\ [][NextSanity]_vars

\* ------------------------------------ the LIFO sanity scenario: claims
\* The items the drain returned are the five pushed ones, each once.
SanityAllReturned ==
  /\ Len(sanity.out) = 5
  /\ \A x \in 1..5 : Occ(sanity.out, x) = 1

\* C17 as stated: when the drain has ended, the pops have returned
\* {1,2,3,4,5} as a multiset and the last item popped is 3 or 5.
C17_LastPoppedIsATop ==
  sanity.drained =>
    /\ SanityAllReturned
    /\ sanity.out[Len(sanity.out)] \in {3, 5}

\* C17 amended: when the drain has ended, the pops have returned
\* {1,2,3,4,5} as a multiset, the first item popped is 3 or 5 (the last
\* push of one worker) and the last item popped is 1 or 4 (the first push
\* of one worker), each worker's items coming out in the reverse of the
\* order it pushed them.
C17_FirstPoppedIsATop ==
  sanity.drained =>
    /\ SanityAllReturned
    /\ sanity.out[1] \in {3, 5}
    /\ sanity.out[Len(sanity.out)] \in {1, 4}
    /\ \A i \in 1..5, j \in 1..5 :
         (i < j /\ ((sanity.out[i] <= 3) = (sanity.out[j] <= 3)))
           => sanity.out[i] > sanity.out[j]

\* C17 witness: the drain has ended after an interleaving in which worker
\* 2's pushes fell between worker 1's.
C17_Witness ==
  /\ sanity.drained
  /\ sanity.out = <<3, 5, 2, 4, 1>>

\* ------------------------------------ OrderedByIntegerMetric: calls
InitOBIM ==
  /\ OBFresh
  /\ CFFresh /\ pushToLocal = TRUE
  /\ STLFresh /\ stlKind = "LIFO"
  /\ CWFresh /\ cwKind = "PriQueue"
  /\ FEFresh
  /\ RestFresh

OBEnqueued == SumOver(Vals, obLog.pushed)

\* fill_initial on the fresh OBIM, by one thread before the workers run.
OBFillInitial(w, range) ==
  /\ ~obLog.seeded /\ obLog.calls = 0
  /\ range # <<>>
  /\ ob' = OB_fill_initial(ob, w, range)
  /\ obLog' = [obLog EXCEPT
       !.pushed = [v \in Vals |-> @[v] + Occ(range, v)],
       !.seeded = TRUE]
  /\ UNCHANGED <<obPc, cfVars, stlVars, cwVars, feVars, seqVars, sanity, appVars>>

OBPush(w, val) ==
  /\ obPc[w] = OBIdle
  /\ OBEnqueued < MaxEnq
  /\ ob' = OB_push(ob, w, val)
  /\ obLog' = [obLog EXCEPT !.pushed[val] = @ + 1, !.calls = 1,
                            !.lowered = IF ob'.cursor[w] < ob.cursor[w] THEN "push" ELSE @]
  /\ UNCHANGED <<obPc, cfVars, stlVars, cwVars, feVars, seqVars, sanity, appVars>>

OBAborted(w, val) ==
  /\ obPc[w] = OBIdle
  /\ OBEnqueued < MaxEnq
  /\ ob' = OB_aborted(ob, w, val)
  /\ obLog' = [obLog EXCEPT !.pushed[val] = @ + 1, !.calls = 1, !.abortedCalls = 1,
                            !.lowered = IF ob'.cursor[w] < ob.cursor[w] THEN "push" ELSE @]
  /\ UNCHANGED <<obPc, cfVars, stlVars, cwVars, feVars, seqVars, sanity, appVars>>

\* Worker w calls pop(): the cursor wrap and the first bucket pop.
OBPopBegin(w) ==
  /\ obPc[w] = OBIdle
  /\ LET r == OB_pop_begin(ob, w)
     IN /\ ob' = r.s
        /\ obPc' = [obPc EXCEPT ![w] = [op |-> "pop", ret |-> r.ret]]
        /\ obLog' = [obLog EXCEPT
             !.calls = 1,
             !.lowered = IF r.s.cursor[w] < ob.cursor[w] THEN "wrap" ELSE @]
  /\ UNCHANGED <<cfVars, stlVars, cwVars, feVars, seqVars, sanity, appVars>>

\* One iteration of pop()'s loop, on a bucket of the array.
OBPopLoop(w) ==
  /\ obPc[w].op = "pop"
  /\ OB_pop_again(ob, w, obPc[w].ret)
  /\ LET a == OB_pop_advance(ob, w)
     IN /\ a.cursor[w] < OB_size
        /\ LET r == OB_bucket_pop(a, a.cursor[w])
           IN /\ ob' = r.s
              /\ obPc' = [obPc EXCEPT ![w].ret = r.ret]
  /\ UNCHANGED <<obLog, cfVars, stlVars, cwVars, feVars, seqVars, sanity, appVars>>

\* One iteration of pop()'s loop that reads data[size]: any outcome of
\* the out-of-bounds access that returns (the count of returned items is
\* kept within MaxEnq).
OBPopLoopPastEnd(w, outcome) ==
  /\ obPc[w].op = "pop"
  /\ outcome[1] => SumOver(Vals, obLog.popped) < MaxEnq
  /\ OB_pop_again(ob, w, obPc[w].ret)
  /\ LET a == OB_pop_advance(ob, w)
     IN /\ a.cursor[w] >= OB_size
        /\ ob' = a
        /\ obPc' = [obPc EXCEPT ![w].ret = outcome]
  /\ UNCHANGED <<obLog, cfVars, stlVars, cwVars, feVars, seqVars, sanity, appVars>>

\* The same iteration, the out-of-bounds access never returning.
OBPopHang(w) ==
  /\ obPc[w].op = "pop"
  /\ OB_pop_again(ob, w, obPc[w].ret)
  /\ LET a == OB_pop_advance(ob, w)
     IN /\ a.cursor[w] >= OB_size
        /\ ob' = a
        /\ obPc' = [obPc EXCEPT ![w] = [op |-> "hung", ret |-> <<FALSE, NoVal>>]]
  /\ UNCHANGED <<obLog, cfVars, stlVars, cwVars, feVars, seqVars, sanity, appVars>>

\* pop() returns ret.
OBPopReturn(w) ==
  /\ obPc[w].op = "pop"
  /\ ~OB_pop_again(ob, w, obPc[w].ret)
  /\ obPc' = [obPc EXCEPT ![w] = OBIdle]
  /\ obLog' = [obLog EXCEPT
       !.popped = IF obPc[w].ret[1] THEN [@ EXCEPT ![obPc[w].ret[2]] = @ + 1] ELSE @]
  /\ UNCHANGED <<ob, cfVars, stlVars, cwVars, feVars, seqVars, sanity, appVars>>

NextOBIM ==
  \/ \E w \in Workers, range \in SeqsUpTo(Vals, MaxSeed) : OBFillInitial(w, range)
  \/ \E w \in Workers, val \in Vals : OBPush(w, val)
  \/ \E w \in Workers, val \in Vals : OBAborted(w, val)
  \/ \E w \in Workers : OBPopBegin(w)
  \/ \E w \in Workers : OBPopLoop(w)
  \/ \E w \in Workers, outcome \in OutOfBounds : OBPopLoopPastEnd(w, outcome)
  \/ \E w \in Workers : OBPopHang(w)
  \/ \E w \in Workers : OBPopReturn(w)

SpecOBIM == InitOBIM /\ [][NextOBIM]_vars

\* push(val) with the mis-sized Indexer: index > range, and
\* data[index].push(val) is an access past the end of the array
\* (undefined behaviour).  Either the store lands in the memory behind the
\* array and the call goes on, no bucket of the array having changed, or
\* the call never returns (lock() spinning on a non-zero word there).
OBPushWide(w, val, returns) ==
  /\ obPc[w] = OBIdle
  /\ OBEnqueued < MaxEnq
  /\ LET index == OB_I_wide(val, OB_size)
     IN /\ index >= OB_size
        /\ IF returns
           THEN /\ ob' = IF ob.cursor[w] > index THEN [ob EXCEPT !.cursor[w] = index] ELSE ob
                /\ obPc' = obPc
           ELSE /\ ob' = ob
                /\ obPc' = [obPc EXCEPT ![w] = [op |-> "hung", ret |-> <<FALSE, NoVal>>]]
  /\ obLog' = [obLog EXCEPT !.pushed[val] = @ + 1, !.calls = 1]
  /\ UNCHANGED <<cfVars, stlVars, cwVars, feVars, seqVars, sanity, appVars>>

\* The OBIM used with either Indexer.
NextOBIMWide ==
  \/ NextOBIM
  \/ \E w \in Workers, val \in Vals, returns \in BOOLEAN : OBPushWide(w, val, returns)

SpecOBIMWide == InitOBIM /\ [][NextOBIMWide]_vars

\* ------------------------------------ OrderedByIntegerMetric: claims
\* C3: with no aborted call, no pop returns more items of a value than
\* were pushed, and once empty() returns true with no call in progress
\* the items returned by successful pops are, value by value, as many as
\* the items given to push and fill_initial.
C3_OBIMPreservation ==
  obLog.abortedCalls = 0 =>
    /\ \A v \in Vals : obLog.popped[v] <= obLog.pushed[v]
    /\ (OB_empty(ob) /\ \A w \in Workers : obPc[w] = OBIdle)
         => obLog.popped = obLog.pushed

\* The step is a push (or aborted) by w into the bucket its cursor ends on.
OBPushTo(w) ==
  /\ obPc[w] = OBIdle /\ obPc'[w] = OBIdle
  /\ Len(ob'.data[ob'.cursor[w]].wl) = Len(ob.data[ob'.cursor[w]].wl) + 1

\* The step is the start of a pop by w that wraps w's cursor.
OBWrap(w) ==
  /\ obPc[w] = OBIdle /\ obPc'[w].op = "pop"
  /\ ob.cursor[w] = OB_size /\ ob'.cursor[w] = 0

\* C7 as stated: a worker's cursor is lowered only by a push of that
\* worker into a bucket below the cursor.
C7_CursorLoweredOnlyByPush ==
  [][\A w \in Workers : ob'.cursor[w] < ob.cursor[w] => OBPushTo(w)]_vars

\* C7 amended: a worker's cursor is lowered only by a push of that worker
\* into a bucket below the cursor, which sets it to that bucket, or by
\* the wrap at the start of that worker's pop, which sets it from
\* range + 1 to 0; between two pops of the worker that do not wrap it
\* never decreases without such a push.
C7_CursorLoweredByPushOrWrap ==
  [][\A w \in Workers : ob'.cursor[w] < ob.cursor[w] => (OBPushTo(w) \/ OBWrap(w))]_vars

\* C7 witness: the latest lowering of a cursor was by a push below it,
\* after an earlier pop had moved that cursor up.
C7_Witness ==
  /\ obLog.lowered = "push"
  /\ obLog.popped # ZeroCount

\* One worker performs every call.
NextOBIMSolo ==
  \/ \E range \in SeqsUpTo(Vals, MaxSeed) : OBFillInitial(1, range)
  \/ \E val \in Vals : OBPush(1, val)
  \/ \E val \in Vals : OBAborted(1, val)
  \/ OBPopBegin(1)
  \/ OBPopLoop(1)
  \/ \E outcome \in OutOfBounds : OBPopLoopPastEnd(1, outcome)
  \/ OBPopHang(1)
  \/ OBPopReturn(1)

SpecOBIMSolo == InitOBIM /\ [][NextOBIMSolo]_vars

\* Every bucket below index i is empty.
OBEmptyBelow(s, i) == \A j \in 0..(OB_size - 1) : j < i => s.data[j].wl = <<>>

\* C19: with one worker doing every push and pop, every bucket below that
\* worker's cursor is empty, and an item that pop is about to return with
\* ok was taken from the bucket of its index, the lowest bucket that held
\* an item.
C19_SoloPopsLowestBucket ==
  /\ OBEmptyBelow(ob, ob.cursor[1])
  /\ (obPc[1].op = "pop" /\ obPc[1].ret[1])
       => OB_I(obPc[1].ret[2], OB_size) = ob.cursor[1]

\* C24: while a worker is inside pop, the bucket its latest data[cur].pop()
\* was made on, the one at its cursor, is one of data[0..range].
C24_PopInsideArray ==
  \A w \in Workers :
    obPc[w].op \in {"pop", "hung"} => ob.cursor[w] \in 0..OBRange

\* Items held in the buckets of s.
OBHeldAll(s) == SumOver(0..(OB_size - 1), [i \in 0..(OB_size - 1) |-> Len(s.data[i].wl)])

\* The call that took s to r.s returned an item that a bucket of s held.
OBReturnedHeld(s, r) ==
  /\ r.ret[1]
  /\ OBHeldAll(r.s) = OBHeldAll(s) - 1
  /\ \E i \in 0..(OB_size - 1) :
       s.data[i].wl # <<>> /\ Head(s.data[i].wl) = r.ret[2] /\ r.s.data[i].wl = Tail(s.data[i].wl)

\* C35: in every reachable state with no call under way and an item held,
\* for every worker w (wherever its cursor is and whoever pushed the
\* item), of two pops by w in a row the first returns a held item, or it
\* returns not-ok leaving w's cursor at range + 1 and the second, which
\* starts over at bucket 0, returns a held item.
C35_WrapAndRetry ==
  (~OB_empty(ob) /\ \A u \in Workers : obPc[u] = OBIdle) =>
    \A w \in Workers, o1 \in OutOfBounds, o2 \in OutOfBounds :
      LET p1 == OB_pop(ob, w, o1)
          p2 == OB_pop(p1.s, w, o2)
      IN \/ OBReturnedHeld(ob, p1)
         \/ /\ ~p1.ret[1]
            /\ p1.s.cursor[w] = OB_size
            /\ OBReturnedHeld(p1.s, p2)

\* C36: in every reachable state, for every worker w, a pop by w either
\* finds a valid slot of w, and then returns the item of the valid slot of
\* lowest index, marks that slot (and no other) empty and leaves every
\* other slot, the other workers' caches and the parent as they are; or
\* finds none, and then returns what the parent's pop returns, leaves the
\* parent as the parent's pop leaves it and every cache as it is.
C36_CachePopPolicy ==
  \A w \in Workers :
    LET r == Cache_pop(cwKind, cw, w)
        valid == {i \in Slots : cw.cache[w][i].valid}
    IN IF valid # {}
       THEN \E i \in valid :
              /\ \A k \in valid : i <= k
              /\ r.ret = <<TRUE, cw.cache[w][i].data>>
              /\ ~r.s.cache[w][i].valid
              /\ \A k \in Slots \ {i} : r.s.cache[w][k] = cw.cache[w][k]
              /\ \A u \in Workers \ {w} : r.s.cache[u] = cw.cache[u]
              /\ r.s.parent = cw.parent
       ELSE LET p == STL_pop(cwKind, SL_lock(cw.parent))
            IN /\ r.ret = p.ret
               /\ r.s.parent = p.s
               /\ r.s.cache = cw.cache

\* C36 witness: after some pop, one worker holds items in both slots with
\* the parent not empty (its pop is served from slot 0), and the other
\* holds none (its pop is the parent's pop).
C36_Witness ==
  \E w \in Workers, u \in Workers :
    /\ SumOver(Vals, cwLog.popped) > 0
    /\ \A i \in Slots : cw.cache[w][i].valid
    /\ cw.cache[w][0].data # cw.cache[w][1].data
    /\ \A i \in Slots : ~cw.cache[u][i].valid
    /\ cw.parent.wl # <<>>

\* The step is a call of push or aborted with item val.
OBPushStep(val) ==
  /\ obLog'.pushed[val] = obLog.pushed[val] + 1
  /\ obLog'.seeded = obLog.seeded

\* C22: every push, whatever index the Indexer returns for its item,
\* returns and stores the item in one of the buckets 0..range, where a
\* later pop finds it.
C22_MisSizedPushLandsInArray ==
  [][\A val \in Vals :
       OBPushStep(val) =>
         /\ \A w \in Workers : obPc'[w] = obPc[w]
         /\ \E i \in 0..OBRange : ob'.data[i].wl = Append(ob.data[i].wl, val)]_vars

\* ------------------------------------- CacheByIntegerMetric: calls
InitCache ==
  /\ CWFresh /\ cwKind \in Kinds
  /\ CFFresh /\ pushToLocal = TRUE
  /\ STLFresh /\ stlKind = "LIFO"
  /\ OBFresh
  /\ FEFresh
  /\ RestFresh

CWEnqueued == SumOver(Vals, cwLog.pushed)

\* fill_initial on the fresh wrapper, before the workers run.
CWFillInitial(range) ==
  /\ ~cwLog.seeded /\ cwLog.calls = 0
  /\ range # <<>>
  /\ cw' = Cache_fill_initial(cwKind, cw, range)
  /\ cwLog' = [cwLog EXCEPT
       !.pushed = [v \in Vals |-> @[v] + Occ(range, v)],
       !.seeded = TRUE]
  /\ UNCHANGED <<cwKind, cfVars, stlVars, obVars, feVars, seqVars, sanity, appVars>>

CWPush(w, val) ==
  /\ CWEnqueued < MaxEnq
  /\ cw' = Cache_push(cwKind, cw, w, val)
  /\ cwLog' = [cwLog EXCEPT !.pushed[val] = @ + 1, !.calls = 1, !.drained[w] = FALSE]
  /\ UNCHANGED <<cwKind, cfVars, stlVars, obVars, feVars, seqVars, sanity, appVars>>

CWAborted(w, val) ==
  /\ CWEnqueued < MaxEnq
  /\ cw' = Cache_aborted(cwKind, cw, w, val)
  /\ cwLog' = [cwLog EXCEPT !.pushed[val] = @ + 1, !.calls = 1, !.drained[w] = FALSE,
                            !.abortedCalls = 1]
  /\ UNCHANGED <<cwKind, cfVars, stlVars, obVars, feVars, seqVars, sanity, appVars>>

CWPop(w) ==
  /\ LET r == Cache_pop(cwKind, cw, w)
     IN /\ cw' = r.s
        /\ cwLog' = [cwLog EXCEPT
             !.popped = IF r.ret[1] THEN [@ EXCEPT ![r.ret[2]] = @ + 1] ELSE @,
             !.calls = 1,
             !.drained[w] = ~r.ret[1]]
  /\ UNCHANGED <<cwKind, cfVars, stlVars, obVars, feVars, seqVars, sanity, appVars>>

NextCache ==
  \/ \E range \in SeqsUpTo(Vals, MaxSeed) : CWFillInitial(range)
  \/ \E w \in Workers, val \in Vals : CWPush(w, val)
  \/ \E w \in Workers, val \in Vals : CWAborted(w, val)
  \/ \E w \in Workers : CWPop(w)

SpecCache == InitCache /\ [][NextCache]_vars

\* ------------------------------------ CacheByIntegerMetric: claims
\* Items of value v in the valid slots of worker w.
InSlots(w, v) == Cardinality({i \in Slots : cw.cache[w][i].valid /\ cw.cache[w][i].data = v})

\* C4: with no aborted call, value by value, the items in the valid slots
\* of all workers, in the parent and returned by pops are as many as the
\* items given to push and fill_initial (each item is in exactly one
\* place), and once the latest call of every worker is a pop that
\* returned not-ok the returned items are as many as the enqueued ones.
C4_CachePreservation ==
  cwLog.abortedCalls = 0 =>
    /\ \A v \in Vals :
         SumOver(Workers, [w \in Workers |-> InSlots(w, v)])
           + Occ(cw.parent.wl, v) + cwLog.popped[v] = cwLog.pushed[v]
    /\ (\A w \in Workers : cwLog.drained[w]) => cwLog.popped = cwLog.pushed

\* C4 witness: items went through slots and through the parent, and every
\* worker has popped until not-ok.
C4_Witness ==
  /\ cwLog.abortedCalls = 0
  /\ ~cwLog.seeded
  /\ \A w \in Workers : cwLog.drained[w]
  /\ SumOver(Vals, cwLog.popped) = MaxEnq

\* The valid slots of w hold their items in non-decreasing metric order.
SlotsSorted(c) ==
  \A i \in Slots, j \in Slots :
    (i < j /\ c[i].valid /\ c[j].valid)
      => Cache_I(c[i].data, CacheSize) <= Cache_I(c[j].data, CacheSize)

\* The valid slots of w are the first ones.
SlotsPrefix(c) == \A i \in Slots, j \in Slots : (i < j /\ c[j].valid) => c[i].valid

\* The step is a pop of w served from w's slots.
CWPopFromSlot(w) == \E i \in Slots : cw.cache[w][i].valid /\ ~cw'.cache[w][i].valid

\* The item a pop of w served from its slots returns.
CWSlotReturned(w) ==
  cw.cache[w][CHOOSE i \in Slots : cw.cache[w][i].valid /\ ~cw'.cache[w][i].valid].data

\* C8 as stated, for two items held together in one worker's slots and
\* delivered to that worker: a pop served from the slots never returns an
\* item while a slot of the same worker holds one of lower metric.
C8_CachePopsLowestFirst ==
  [][\A w \in Workers :
       CWPopFromSlot(w) =>
         \A i \in Slots :
           cw.cache[w][i].valid =>
             Cache_I(CWSlotReturned(w), CacheSize) <= Cache_I(cw.cache[w][i].data, CacheSize)]_vars

\* C8 amended: while the valid slots of a worker are its first slots in
\* non-decreasing metric order, a push of that worker keeps them so; a
\* pop keeps the valid slots in non-decreasing metric order; and a pop
\* served from slots that are in that order returns an item of the lowest
\* metric among them.  (A push after a pop has emptied a lower slot may
\* store an item below one of lower metric, and is then delivered first.)
C8_SortedSlotsPopLowestFirst ==
  [][\A w \in Workers :
       /\ (CWPopFromSlot(w) /\ SlotsSorted(cw.cache[w]))
            => /\ SlotsSorted(cw'.cache[w])
               /\ \A i \in Slots :
                    cw.cache[w][i].valid =>
                      Cache_I(CWSlotReturned(w), CacheSize)
                        <= Cache_I(cw.cache[w][i].data, CacheSize)
       /\ (~CWPopFromSlot(w) /\ SlotsSorted(cw.cache[w]) /\ SlotsPrefix(cw.cache[w]))
            => (SlotsSorted(cw'.cache[w]) /\ SlotsPrefix(cw'.cache[w]))]_vars

\* C8 witness: two items were pushed by one worker, the one of lower
\* metric has been returned and the other is still in that worker's slots.
C8_Witness ==
  \E w \in Workers, v \in Vals :
    /\ ~cwLog.seeded
    /\ CWEnqueued = 2
    /\ cwLog.popped[v] = 1
    /\ ~cw.cache[w][0].valid
    /\ cw.cache[w][1].valid
    /\ Cache_I(v, CacheSize) < Cache_I(cw.cache[w][1].data, CacheSize)

\* Items of value v in the valid slots c of a worker.
SlotCount(c, v) == Cardinality({i \in Slots : c[i].valid /\ c[i].data = v})

\* The largest metric among the items in the valid slots c and item v.
WorstMetric(c, v) ==
  CHOOSE k \in {Cache_I(x, CacheSize) : x \in Vals} :
    /\ Cache_I(v, CacheSize) <= k
    /\ \A i \in Slots : c[i].valid => Cache_I(c[i].data, CacheSize) <= k
    /\ \/ Cache_I(v, CacheSize) = k
       \/ \E i \in Slots : c[i].valid /\ Cache_I(c[i].data, CacheSize) = k

\* C20: in every reachable state, for every worker w and item v: when all
\* slots of w are valid, push(v) by w gives the parent exactly one item,
\* of the largest metric among the slot items and v (v itself when v has
\* that metric), and the slots stay valid and hold the other items; when
\* some slot of w is empty, push(v) gives the parent nothing and the slots
\* hold their items and v.
C20_WorstGoesToParent ==
  \A w \in Workers, v \in Vals :
    LET c == cw.cache[w]
        r == Cache_push(cwKind, cw, w, v)
        full == \A i \in Slots : c[i].valid
    IN IF full
       THEN \E x \in Vals :
              /\ r.parent.wl = Append(cw.parent.wl, x)
              /\ Cache_I(x, CacheSize) = WorstMetric(c, v)
              /\ Cache_I(v, CacheSize) = WorstMetric(c, v) => x = v
              /\ \A i \in Slots : r.cache[w][i].valid
              /\ \A y \in Vals :
                   SlotCount(r.cache[w], y)
                     = SlotCount(c, y) + (IF y = v THEN 1 ELSE 0) - (IF y = x THEN 1 ELSE 0)
       ELSE /\ r.parent.wl = cw.parent.wl
            /\ \A y \in Vals :
                 SlotCount(r.cache[w], y) = SlotCount(c, y) + (IF y = v THEN 1 ELSE 0)

\* C20 witness: one worker has pushed one item more than its cache has
\* slots, nothing was seeded or popped: its slots are full and the parent
\* holds the one item forwarded, which no slot item exceeds.
C20_Witness ==
  \E w \in Workers :
    /\ ~cwLog.seeded
    /\ CWEnqueued = CacheSize + 1
    /\ cwLog.popped = ZeroCount
    /\ Len(cw.parent.wl) = 1
    /\ \A i \in Slots :
         /\ cw.cache[w][i].valid
         /\ Cache_I(cw.cache[w][i].data, CacheSize) < Cache_I(cw.parent.wl[1], CacheSize)

\* ------------------------------------------------- for_each: steps
\* The loop driver over a ChunkedFIFO W, with an operator that neither
\* pushes nor aborts.
InitFE ==
  /\ FEFresh
  /\ RestFresh
  /\ CFFresh /\ pushToLocal \in BOOLEAN
  /\ STLFresh /\ stlKind = "LIFO"
  /\ OBFresh
  /\ CWFresh /\ cwKind = "PriQueue"

\* The driver gives the initial items to the fresh W and spawns the
\* workers.
FEStart(range) ==
  /\ \A w \in Workers : fe.pc[w] = "new"
  /\ cf' = CF_fill_initial(cf, 1, range)
  /\ fe' = [fe EXCEPT !.pc = [w \in Workers |-> "pop"]]
  /\ feLog' = [feLog EXCEPT !.seeds = [v \in Vals |-> Occ(range, v)]]
  /\ UNCHANGED <<pushToLocal, cfLog, stlVars, obVars, cwVars, seqVars, sanity, appVars>>

\* Step 1 of the worker loop: pop; an item goes to the operator, not-ok
\* is observed as empty (and the pop is retried while some worker has not
\* observed empty).
FEPop(w) ==
  /\ fe.pc[w] = "pop"
  /\ \E u \in Workers : ~fe.sawEmpty[u]
  /\ LET r == CF_pop(cf, w)
     IN /\ cf' = r.s
        /\ fe' = IF r.ret[1]
                 THEN [fe EXCEPT !.pc[w] = "run", !.item[w] = r.ret[2],
                                 !.sawEmpty[w] = FALSE]
                 ELSE [fe EXCEPT !.sawEmpty[w] = TRUE]
  /\ UNCHANGED <<pushToLocal, cfLog, feLog, stlVars, obVars, cwVars, seqVars, sanity, appVars>>

\* Steps 2 and 3: op(item, ctx) returns normally with nothing buffered.
FEInvoke(w) ==
  /\ fe.pc[w] = "run"
  /\ fe' = [fe EXCEPT !.pc[w] = "pop", !.item[w] = NoVal]
  /\ feLog' = [feLog EXCEPT !.invoked[fe.item[w]] = @ + 1, !.ran[w] = TRUE]
  /\ UNCHANGED <<cfVars, stlVars, obVars, cwVars, seqVars, sanity, appVars>>

\* Step 1, the exit: every worker has observed empty.
FETerminate(w) ==
  /\ fe.pc[w] = "pop"
  /\ \A u \in Workers : fe.sawEmpty[u]
  /\ fe' = [fe EXCEPT !.pc[w] = "done"]
  /\ UNCHANGED <<feLog, cfVars, stlVars, obVars, cwVars, seqVars, sanity, appVars>>

FEWorker(w) == FEPop(w) \/ FEInvoke(w) \/ FETerminate(w)

FEDriver == \E range \in SeqsUpTo(Vals, MaxSeed) : FEStart(range)

NextFE ==
  \/ FEDriver
  \/ \E w \in Workers : FEPop(w)
  \/ \E w \in Workers : FEInvoke(w)
  \/ \E w \in Workers : FETerminate(w)

\* Every thread that can take a step eventually takes one.
SpecFE ==
  /\ InitFE /\ [][NextFE]_vars
  /\ WF_vars(FEDriver)
  /\ \A w \in Workers : WF_vars(FEWorker(w))

\* ------------------------------------- for_each: speculative steps
\* The same loop with an operator that may call ctx.push and may abort.
FEItems == SumOver(Vals, feLog.seeds) + feLog.ctxPushes

\* Step 2: the running operator calls ctx.push(val), which buffers val.
FECtxPush(w, val) ==
  /\ fe.pc[w] = "run"
  /\ FEItems < MaxEnq
  /\ fe' = [fe EXCEPT !.buf[w] = Append(@, val)]
  /\ feLog' = [feLog EXCEPT !.ctxPushes = @ + 1]
  /\ UNCHANGED <<cfVars, stlVars, obVars, cwVars, seqVars, sanity, appVars>>

\* Step 3, the commit point: op returned normally, no conflict detected.
FECommit(w) ==
  /\ fe.pc[w] = "run"
  /\ fe' = [fe EXCEPT !.pc[w] = IF fe.buf[w] = <<>> THEN "pop" ELSE "flush",
                      !.item[w] = NoVal]
  /\ feLog' = [feLog EXCEPT !.invoked[fe.item[w]] = @ + 1, !.ran[w] = TRUE,
                            !.committed[fe.item[w]] = @ + 1]
  /\ UNCHANGED <<cfVars, stlVars, obVars, cwVars, seqVars, sanity, appVars>>

\* Step 3, the flush: the next buffered push goes to W.push.
FEFlush(w) ==
  /\ fe.pc[w] = "flush"
  /\ cf' = CF_push(cf, w, Head(fe.buf[w]), pushToLocal)
  /\ fe' = [fe EXCEPT !.buf[w] = Tail(@),
                      !.pc[w] = IF Tail(fe.buf[w]) = <<>> THEN "pop" ELSE "flush"]
  /\ feLog' = [feLog EXCEPT !.flushed[Head(fe.buf[w])] = @ + 1]
  /\ UNCHANGED <<pushToLocal, cfLog, stlVars, obVars, cwVars, seqVars, sanity, appVars>>

\* Step 4: a conflict or a user-signalled abort: the buffered pushes are
\* discarded and the item goes to W.aborted.
FEAbort(w) ==
  /\ fe.pc[w] = "run"
  /\ SumOver(Vals, feLog.aborted) < MaxAbort
  /\ cf' = CF_aborted(cf, w, fe.item[w])
  /\ fe' = [fe EXCEPT !.pc[w] = "pop", !.item[w] = NoVal, !.buf[w] = <<>>]
  /\ feLog' = [feLog EXCEPT !.invoked[fe.item[w]] = @ + 1, !.ran[w] = TRUE,
                            !.aborted[fe.item[w]] = @ + 1]
  /\ UNCHANGED <<pushToLocal, cfLog, stlVars, obVars, cwVars, seqVars, sanity, appVars>>

FESWorker(w) == FEPop(w) \/ FECommit(w) \/ FEFlush(w) \/ FEAbort(w) \/ FETerminate(w)

NextFES ==
  \/ FEDriver
  \/ \E w \in Workers : FEPop(w)
  \/ \E w \in Workers, val \in Vals : FECtxPush(w, val)
  \/ \E w \in Workers : FECommit(w)
  \/ \E w \in Workers : FEFlush(w)
  \/ \E w \in Workers : FEAbort(w)
  \/ \E w \in Workers : FETerminate(w)

\* Every thread that can take a step eventually takes one; the operator
\* returns, one way or the other.
SpecFES ==
  /\ InitFE /\ [][NextFES]_vars
  /\ WF_vars(FEDriver)
  /\ \A w \in Workers : WF_vars(FESWorker(w))

\* ------------------------------------- for_each: parallel break
\* The same loop with an operator that may call ctx.push and may request
\* early termination (ProcessNonDet: ctx.breakLoop() and return).

\* Step 1 while no break was requested.
FEBPop(w) == ~fe.broke /\ FEPop(w)

\* Mutant of the break: the invocation that requests it is cut short, its
\* buffered pushes are dropped.
FEBreak_discards(w) ==
  /\ fe.pc[w] = "run"
  /\ fe' = [fe EXCEPT !.pc[w] = "pop", !.item[w] = NoVal, !.buf[w] = <<>>,
                      !.broke = TRUE]
  /\ feLog' = [feLog EXCEPT !.invoked[fe.item[w]] = @ + 1, !.ran[w] = TRUE,
                            !.committed[fe.item[w]] = @ + 1]
  /\ UNCHANGED <<cfVars, stlVars, obVars, cwVars, seqVars, sanity, appVars>>

\* Steps 2 and 3: the operator calls ctx.breakLoop() and returns normally.
\* The invocation commits as any other.
FEBreak(w) ==
  /\ fe.pc[w] = "run"
  /\ fe' = [fe EXCEPT !.pc[w] = IF fe.buf[w] = <<>> THEN "pop" ELSE "flush",
                      !.item[w] = NoVal,
                      !.broke = TRUE]
  /\ feLog' = [feLog EXCEPT !.invoked[fe.item[w]] = @ + 1, !.ran[w] = TRUE,
                            !.committed[fe.item[w]] = @ + 1]
  /\ UNCHANGED <<cfVars, stlVars, obVars, cwVars, seqVars, sanity, appVars>>

\* Step 1, the exit on break: the worker is between two invocations, a
\* break was requested, and it leaves the loop without popping.
FEBExit(w) ==
  /\ fe.pc[w] = "pop"
  /\ fe.broke
  /\ fe' = [fe EXCEPT !.pc[w] = "done"]
  /\ UNCHANGED <<feLog, cfVars, stlVars, obVars, cwVars, seqVars, sanity, appVars>>

FEBWorker(w) ==
  FEBPop(w) \/ FECommit(w) \/ FEFlush(w) \/ FEBreak(w) \/ FEBExit(w) \/ FETerminate(w)

NextFEB ==
  \/ FEDriver
  \/ \E w \in Workers : FEBPop(w)
  \/ \E w \in Workers, val \in Vals : FECtxPush(w, val)
  \/ \E w \in Workers : FECommit(w)
  \/ \E w \in Workers : FEFlush(w)
  \/ \E w \in Workers : FEBreak(w)
  \/ \E w \in Workers : FEBExit(w)
  \/ \E w \in Workers : FETerminate(w)

\* Every thread that can take a step eventually takes one; the operator
\* returns.
SpecFEB ==
  /\ InitFE /\ [][NextFEB]_vars
  /\ WF_vars(FEDriver)
  /\ \A w \in Workers : WF_vars(FEBWorker(w))

\* ------------------------------------------------ for_each: claims
FEDone == \A w \in Workers : fe.pc[w] = "done"

\* C9: with an operator that neither pushes nor aborts, under fair
\* scheduling, for_each over the seed items reaches and stays in the state
\* where every worker has left the loop and the operator has been invoked
\* once per seed item (as many invocations on each value as seeds of it).
C9_ForEachTerminates == <>[](FEDone /\ feLog.invoked = feLog.seeds)

\* C9 witness: a loop over the largest seed range has ended, every worker
\* having invoked the operator.
C9_Witness ==
  /\ FEDone
  /\ SumOver(Vals, feLog.seeds) = MaxSeed
  /\ SumOver(Vals, feLog.invoked) = MaxSeed
  /\ \A w \in Workers : feLog.ran[w]

\* Invocations of the operator on items of value v that are under way.
FERunning(v) == Cardinality({w \in Workers : fe.pc[w] = "run" /\ fe.item[w] = v})

\* C11: value by value, the items in the worklist, under the running
\* operator and committed are as many as the seed items and the buffered
\* pushes flushed so far, and flushing is done only by a worker past the
\* commit point of its invocation: a buffered push is in the worklist only
\* after its invocation committed; an abort leaves none of the buffered
\* pushes there and puts the item back exactly once (running -> pending);
\* the buffer does not outlive the invocation.
C11_CommitAndAbort ==
  /\ \A v \in Vals :
       CFHeld(cf, v) + FERunning(v) + feLog.committed[v]
         = feLog.seeds[v] + feLog.flushed[v]
  /\ \A w \in Workers :
       /\ fe.pc[w] \notin {"run", "flush"} => fe.buf[w] = <<>>
       /\ fe.pc[w] = "flush" => fe.buf[w] # <<>>
  /\ SumOver(Vals, feLog.flushed)
       + SumOver(Workers, [w \in Workers |-> Len(fe.buf[w])]) <= feLog.ctxPushes

\* C11 witness: an invocation with buffered pushes aborted (they were
\* discarded), another committed and flushed its buffered push, and the
\* loop has ended.
C11_Witness ==
  /\ FEDone
  /\ SumOver(Vals, feLog.aborted) > 0
  /\ SumOver(Vals, feLog.flushed) > 0
  /\ SumOver(Vals, feLog.flushed) < feLog.ctxPushes

\* The run is the scenario: seeds [1, 2], an operator that pushes nothing,
\* aborts on 1 and commits on 2.
FEAbortScenario ==
  /\ feLog.seeds = [v \in Vals |-> IF v \in {1, 2} THEN 1 ELSE 0]
  /\ feLog.ctxPushes = 0
  /\ feLog.aborted[1] >= 1
  /\ \A v \in Vals \ {1} : feLog.aborted[v] = 0

\* C12: under fair scheduling for_each ends, with no item left in the
\* worklist and every item committed exactly once however often it was
\* aborted before (each abort is followed by one more invocation on the
\* item); in the scenario, item 1 was invoked at least twice and committed
\* once, item 2 committed once.
C12_SpeculativeAbort ==
  <>[](/\ FEDone
       /\ \A v \in Vals :
            /\ CFHeld(cf, v) = 0
            /\ feLog.committed[v] = feLog.seeds[v] + feLog.flushed[v]
            /\ feLog.invoked[v] = feLog.committed[v] + feLog.aborted[v]
       /\ FEAbortScenario =>
            /\ feLog.invoked[1] >= 2 /\ feLog.committed[1] = 1
            /\ feLog.committed[2] = 1)

\* C12 witness: the scenario has run to its end.
C12_Witness ==
  /\ FEDone
  /\ FEAbortScenario
  /\ feLog.committed[1] = 1 /\ feLog.committed[2] = 1

\* Items held anywhere in the worklist.
CFHeldAll(s) == SumOver(Vals, [v \in Vals |-> CFHeld(s, v)])

CFDrained(w) == cfLog.last[w].op = "pop" /\ ~cfLog.last[w].ok

\* Number of items in the chunk at position i of the global FIFO.
QueuedLen(s, i) == IF s.Items[i] = NULL THEN 0 ELSE Len(s.heap[s.Items[i]].data)

\* C1: with no aborted call, once the latest call of every worker is a pop
\* that returned not-ok, the items returned by successful pops are, value
\* by value, as many as the items given to push and fill_initial.
C1_Preservation ==
  (cfLog.abortedCalls = 0 /\ \A w \in Workers : CFDrained(w))
    => \A v \in Vals : cfLog.popped[v] = cfLog.pushed[v]

\* C5 as stated: every chunk in the global chunk FIFO holds exactly
\* ChunkSize items.
C5_QueuedChunkFull ==
  \A i \in 1..Len(cf.Items) : cf.Items[i] # NULL => QueuedLen(cf, i) = ChunkSize

\* The step is a call of fill_initial.
IsFillStep == \E w \in Workers : cfLog.last[w].op = "none" /\ cfLog'.last[w].op = "fill"

\* Addresses queued in s.
QueuedIds(s) == {s.Items[i] : i \in 1..Len(s.Items)}

\* C5 amended: a chunk that push or aborted queues holds exactly ChunkSize
\* items, a queued chunk holds between 1 and ChunkSize items, and only a
\* chunk queued by fill_initial holds fewer than ChunkSize.
C5_QueuedChunkFullUnlessSeeded ==
  /\ [][\A c \in QueuedIds(cf') \ QueuedIds(cf) :
          (c # NULL /\ ~IsFillStep) => Len(cf'.heap[c].data) = ChunkSize]_vars
  /\ [](\A i \in 1..Len(cf.Items) :
          cf.Items[i] # NULL => QueuedLen(cf, i) \in 1..ChunkSize)
  /\ [](~cfLog.seeded => \A i \in 1..Len(cf.Items) : QueuedLen(cf, i) = ChunkSize)

\* C5 witness: a push (not fill_initial) has queued a full chunk.
C5_Witness ==
  /\ ~cfLog.seeded
  /\ cf.Items # <<>>
  /\ QueuedLen(cf, 1) = ChunkSize

\* The stack of the chunk at address c (empty for the null address).
ChunkData(s, c) == IF c = NULL THEN <<>> ELSE s.heap[c].data

\* The newest item of a non-empty stack.
Newest(q) == q[Len(q)]

\* C6 as stated: the pop that directly follows aborted(v) by the same
\* worker returns v.  The exception for other workers draining the global
\* FIFO is granted whenever any other worker has made a call at all, and
\* the statement is only asked of worklists on which fill_initial was
\* never called (no null address is ever queued in them).
C6_NextPopReturnsAborted ==
  \A w \in Workers :
    (/\ ~cfLog.seeded
     /\ cfLog.last[w].op = "pop"
     /\ cfLog.last[w].after # "na"
     /\ \A u \in Workers \ {w} : cfLog.last[u].op = "none")
      => cfLog.last[w].after = "hit"

\* The pair returned by the pop that the step is, read off the count of
\* returned items.
PopReturned ==
  IF \E x \in Vals : cfLog'.popped[x] > cfLog.popped[x]
  THEN <<TRUE, CHOOSE x \in Vals : cfLog'.popped[x] > cfLog.popped[x]>>
  ELSE <<FALSE, NoVal>>

\* The step is w's pop directly after w's aborted call.
PopAfterAborted(w) == cfLog.last[w].op = "aborted" /\ cfLog'.last[w].op = "pop"

\* C6 amended: after aborted(v) by w, v is the newest item of w's next
\* chunk.  The pop of w that directly follows returns v when w's current
\* chunk is absent or empty and the global FIFO is empty; otherwise it
\* returns the newest item of w's current chunk or, that one absent or
\* empty, of the chunk at the front of the global FIFO (not-ok when that
\* entry is the null address), and v stays the newest item of w's next.
C6_AbortedParkedInNext ==
  /\ [](\A w \in Workers :
          cfLog.last[w].op = "aborted"
            => /\ cf.next[w] # NULL
               /\ Newest(ChunkData(cf, cf.next[w])) = cfLog.last[w].val)
  /\ [][\A w \in Workers :
          PopAfterAborted(w) =>
            LET v == cfLog.last[w].val
                ret == PopReturned
                own == ChunkData(cf, cf.curr[w])
                front == IF cf.Items = <<>> THEN <<>> ELSE ChunkData(cf, Head(cf.Items))
            IN IF own # <<>>
               THEN ret = <<TRUE, Newest(own)>> /\ Newest(ChunkData(cf', cf'.next[w])) = v
               ELSE IF cf.Items = <<>>
               THEN ret = <<TRUE, v>>
               ELSE IF front = <<>>
               THEN ret = <<FALSE, NoVal>> /\ Newest(ChunkData(cf', cf'.next[w])) = v
               ELSE ret = <<TRUE, Newest(front)>> /\ Newest(ChunkData(cf', cf'.next[w])) = v]_vars

\* C6 witness: a pop directly after aborted(v) has returned v.
C6_Witness ==
  \E w \in Workers :
    /\ cfLog.last[w].op = "pop"
    /\ cfLog.last[w].after = "hit"

\* Items of value v that a pop of a worker other than w can reach without
\* any further call of w: those in queued chunks and in the other workers'
\* chunks; and those already returned.
BeyondPrivate(w, v) ==
  SumOver(1..Len(cf.Items), [i \in 1..Len(cf.Items) |-> InChunk(cf, cf.Items[i], v)])
  + SumOver(Workers \ {w},
            [u \in Workers \ {w} |-> InChunk(cf, cf.curr[u], v) + InChunk(cf, cf.next[u], v)])
  + cfLog.popped[v]

CFPrivate(s, w) ==
  <<s.curr[w], s.next[w], s.nextSize[w], ChunkData(s, s.curr[w]), ChunkData(s, s.next[w])>>

\* The chunk a pop of w in state s takes its item from: w's current chunk
\* if it holds an item, else the chunk at the front of the global FIFO,
\* else w's own next chunk.
CFPopSource(s, w) ==
  IF ChunkData(s, s.curr[w]) # <<>> THEN s.curr[w]
  ELSE IF s.Items # <<>> THEN Head(s.Items)
  ELSE s.next[w]

\* The non-null addresses in the slots of the workers and in the global
\* FIFO, one entry per reference.
CFRefs(s) ==
  [i \in 1..(2 * NumWorkers + Len(s.Items)) |->
     IF i <= NumWorkers THEN s.curr[i]
     ELSE IF i <= 2 * NumWorkers THEN s.next[i - NumWorkers]
     ELSE s.Items[i - 2 * NumWorkers]]

\* C13: in every reachable state, no chunk is referenced twice (a chunk in
\* a worker's current or next slot is in no other slot and not in the
\* global FIFO); for every worker B, a pop of B returns the newest item of
\* B's own current chunk or, that one absent or empty, of the chunk at the
\* front of the global FIFO or, that FIFO empty, of B's own next chunk;
\* and a push, pop or aborted of B leaves the slots and chunks of every
\* other worker as they are.
C13_PrivateChunks ==
  /\ \A i \in DOMAIN CFRefs(cf), j \in DOMAIN CFRefs(cf) :
       (i # j /\ CFRefs(cf)[i] # NULL) => CFRefs(cf)[i] # CFRefs(cf)[j]
  /\ \A B \in Workers :
       LET r == CF_pop(cf, B)
           src == ChunkData(cf, CFPopSource(cf, B))
       IN /\ r.ret = IF src = <<>> THEN <<FALSE, NoVal>> ELSE <<TRUE, Newest(src)>>
          /\ \A A \in Workers \ {B} :
               /\ CFPrivate(r.s, A) = CFPrivate(cf, A)
               /\ CFPrivate(CF_aborted(cf, B, 1), A) = CFPrivate(cf, A)
               /\ CFPrivate(CF_push(cf, B, 1, pushToLocal), A) = CFPrivate(cf, A)

\* C13 witness: items pushed (not seeded) have been returned by pops, A's
\* latest push sits in A's next chunk with the global FIFO empty, and the
\* latest pop of B returned not-ok.
C13_Witness ==
  \E A \in Workers, B \in Workers :
    /\ A # B
    /\ ~cfLog.seeded
    /\ cfLog.last[A].op = "push"
    /\ ChunkData(cf, cf.next[A]) # <<>>
    /\ cf.Items = <<>>
    /\ CFDrained(B)
    /\ cfLog.popped # ZeroCount

\* Worker A has pushed k items on the fresh ChunkedFIFO and nothing else
\* has been done to it (a pop before the first push apart, which returns
\* not-ok and changes nothing).
CFOnlyPushes(A, k) ==
  /\ ~cfLog.seeded
  /\ cfLog.abortedCalls = 0
  /\ cfLog.popped = ZeroCount
  /\ Enqueued(cfLog) = k
  /\ cfLog.last[A].op = "push"
  /\ \A u \in Workers \ {A} : cfLog.last[u].op = "none"

CFRefCount(s, c) == Cardinality({i \in DOMAIN CFRefs(s) : CFRefs(s)[i] = c})

\* C26: every allocated chunk is referenced from exactly one place (the
\* current slot of one worker, the next slot of one worker or one entry
\* of the global FIFO) and a chunk that is not allocated (never was, or
\* was deleted) from none.
C26_OneOwner ==
  \A c \in ChunkIds : CFRefCount(cf, c) = IF cf.heap[c].live THEN 1 ELSE 0

\* C26 witness: a chunk that was seeded, queued, taken as a current chunk
\* and drained has been deleted, its address is free while higher ones
\* are in use, and chunks sit in a current slot and in a next slot.
C26_Witness ==
  /\ cfLog.seeded
  /\ cfLog.popped # ZeroCount
  /\ \E c \in ChunkIds, d \in ChunkIds : c < d /\ ~cf.heap[c].live /\ cf.heap[d].live
  /\ \E w \in Workers : cf.curr[w] # NULL
  /\ \E w \in Workers : cf.next[w] # NULL

\* The state of chunk address c: free (not allocated), owned as some
\* worker's next, published in the global FIFO, or owned as some worker's
\* current.
CFChunkState(s, c) ==
  IF ~s.heap[c].live THEN "free"
  ELSE IF \E w \in Workers : s.next[w] = c THEN "next"
  ELSE IF \E w \in Workers : s.curr[w] = c THEN "curr"
  ELSE "queued"

\* The step takes chunk c through the documented order: allocated as a
\* next chunk, published, taken as a current chunk from the global FIFO,
\* deleted when found drained as a current chunk.  (fill_initial
\* allocates and publishes within one call.)
CFDocumentedMove(c) ==
  LET a == CFChunkState(cf, c)
      b == CFChunkState(cf', c)
  IN \/ a = b
     \/ a = "free" /\ b = "next"
     \/ a = "free" /\ b = "queued" /\ IsFillStep
     \/ a = "next" /\ b = "queued"
     \/ a = "queued" /\ b = "curr"
     \/ a = "curr" /\ b = "free" /\ cf.heap[c].data = <<>>

\* The step makes chunk c, the next chunk of a worker, that worker's
\* current chunk, the global FIFO being empty.
CFTakeoverMove(c) ==
  \E w \in Workers :
    /\ cf.next[w] = c /\ cf'.curr[w] = c /\ cf'.next[w] = NULL
    /\ cf.Items = <<>>
    /\ ChunkData(cf, cf.curr[w]) = <<>>

\* C27 as stated: every chunk changes state only in the order free ->
\* owned-as-next -> published -> owned-as-current -> drained -> free: it
\* becomes a current chunk only from the global FIFO and is freed only
\* when it is an empty current chunk.
C27_Lifecycle ==
  [][\A c \in ChunkIds : CFDocumentedMove(c)]_vars

\* C27 amended: every chunk changes state only in that order or, skipping
\* publication, straight from owned-as-next to owned-as-current of the
\* same worker, when that worker has no current chunk (or an empty one,
\* which pop deletes) and the global FIFO is empty; it is freed only when
\* it is an empty current chunk.
C27_LifecycleWithTakeover ==
  [][\A c \in ChunkIds : CFDocumentedMove(c) \/ CFTakeoverMove(c)]_vars

\* C27 witness: on a worklist that was never seeded and was given too few
\* items for any chunk to have been published, a worker holds a current
\* chunk, from which its latest pop returned an item.
C27_Witness ==
  \E w \in Workers :
    /\ ~cfLog.seeded
    /\ Enqueued(cfLog) <= ChunkSize
    /\ cf.curr[w] # NULL
    /\ cfLog.last[w].op = "pop" /\ cfLog.last[w].ok

\* C28: in every reachable state, a pop of worker w returns not-ok only
\* if w's current chunk, w's next chunk and the chunks in the global FIFO
\* hold no item.
C28_NotOkOnlyWhenNothing ==
  \A w \in Workers :
    ~CF_pop(cf, w).ret[1] =>
      /\ ChunkData(cf, cf.curr[w]) = <<>>
      /\ ChunkData(cf, cf.next[w]) = <<>>
      /\ \A i \in 1..Len(cf.Items) : QueuedLen(cf, i) = 0

\* C29: when every worker keeps calling pop and the calls of push and
\* aborted come to an end, the worklist reaches and stays in the state
\* where every enqueued item has been returned by a pop, value by value
\* as often as it was enqueued, and empty() returns true for every worker.
C29_DrainLiveness ==
  <>[](/\ cfLog.popped = cfLog.pushed
       /\ \A w \in Workers : CF_empty(cf, w))

\* C29 witness: as many items as a run may enqueue were seeded, pushed
\* and given to aborted, all have been returned, every worker's latest
\* pop returned not-ok and empty() is true for every worker.
C29_Witness ==
  /\ cfLog.seeded
  /\ cfLog.abortedCalls = 1
  /\ Enqueued(cfLog) = MaxEnq
  /\ cfLog.popped = cfLog.pushed
  /\ \A w \in Workers : CFDrained(w) /\ CF_empty(cf, w)

\* State s with the current and next slots of every worker but w nulled.
CFOnlyOwn(s, w) ==
  [s EXCEPT !.curr = [u \in Workers |-> IF u = w THEN s.curr[u] ELSE NULL],
            !.next = [u \in Workers |-> IF u = w THEN s.next[u] ELSE NULL]]

C25_ChunkSizeBound ==
  \A c \in ChunkIds : cf.heap[c].live => Len(cf.heap[c].data) <= ChunkSize

\* Items of value v in the chunks of the global FIFO.
CFQueued(s, v) ==
  SumOver(1..Len(s.Items), [i \in 1..Len(s.Items) |-> InChunk(s, s.Items[i], v)])

\* C31: in every reachable state, for both pushToLocal settings, every
\* worker w and every item v, aborted(v) by w leaves v the newest item of
\* w's next chunk: appended to the next chunk w had, or alone in a new
\* chunk when w had none or had a full one, which is then the one entry
\* the global FIFO gains.  The current slots and every chunk but that
\* next chunk are as before, so the item is in no queued chunk.
C31_AbortedGoesToNext ==
  \A w \in Workers, v \in Vals :
    LET r == CF_aborted(cf, w, v)
        old == cf.next[w]
        full == old # NULL /\ cf.nextSize[w] = ChunkSize
    IN /\ r.next[w] # NULL
       /\ r.next[w] \notin QueuedIds(r)
       /\ r.curr = cf.curr
       /\ \A c \in ChunkIds : (cf.heap[c].live /\ c # r.next[w]) => r.heap[c] = cf.heap[c]
       /\ IF old = NULL \/ full
          THEN ChunkData(r, r.next[w]) = <<v>> /\ ~cf.heap[r.next[w]].live
          ELSE r.next[w] = old /\ ChunkData(r, old) = Append(ChunkData(cf, old), v)
       /\ r.Items = IF full THEN Append(cf.Items, old) ELSE cf.Items
       /\ \A x \in Vals :
            CFQueued(r, x) = CFQueued(cf, x) + (IF full THEN InChunk(cf, old, x) ELSE 0)

\* C31 witness: with pushToLocal = true, the latest call of a worker that
\* holds a current chunk with an item in it was aborted(v), and v is the
\* newest item of its next chunk.
C31_Witness ==
  \E w \in Workers :
    /\ pushToLocal
    /\ cfLog.last[w].op = "aborted"
    /\ ChunkData(cf, cf.curr[w]) # <<>>
    /\ Newest(ChunkData(cf, cf.next[w])) = cfLog.last[w].val

\* The chunk push_local can obtain as w's current chunk in state s: the
\* one w has, else the chunk at the front of the global FIFO, else w's own
\* next chunk; NULL when there is none of these.
CFObtainable(s, w) ==
  IF s.curr[w] # NULL THEN s.curr[w]
  ELSE IF \E i \in 1..Len(s.Items) : s.Items[i] # NULL
  THEN s.Items[CHOOSE i \in 1..Len(s.Items) :
                 s.Items[i] # NULL /\ \A j \in 1..(i - 1) : s.Items[j] = NULL]
  ELSE s.next[w]

\* C32: in every reachable state with pushToLocal = true, for every worker
\* w and item v: when w has a current chunk, or a chunk is queued in the
\* global FIFO, or w has a next chunk, push(v) makes that chunk (in this
\* order of preference) w's current chunk and appends v to it, the global
\* FIFO gaining no entry and w's next slot being cleared when its chunk
\* was the one taken; only when there is none of these, w stays without
\* a current chunk and v goes to w's next chunk.
C32_LocalPush ==
  pushToLocal =>
    \A w \in Workers, v \in Vals :
      LET r == CF_push(cf, w, v, TRUE)
          c == CFObtainable(cf, w)
      IN IF c # NULL
         THEN /\ r.curr[w] = c
              /\ ChunkData(r, c) = Append(ChunkData(cf, c), v)
              /\ \A i \in 1..Len(r.Items) : r.Items[i] \in QueuedIds(cf)
              /\ Len(r.Items) <= Len(cf.Items)
              /\ r.next[w] = IF c = cf.next[w] THEN NULL ELSE cf.next[w]
         ELSE /\ r.curr[w] = NULL
              /\ Newest(ChunkData(r, r.next[w])) = v

\* C33: in every reachable state and for every worker w, pop by w is as
\* follows.  With a current chunk that holds an item: its newest item is
\* returned and removed, next slots and global FIFO stay as they are.
\* With no current chunk, or an empty one (which is deleted): when a chunk
\* is queued in the global FIFO the first one becomes w's current chunk
\* and its newest item is returned, w's next slot staying as it is; when
\* none is queued w's own next chunk becomes the current chunk, the next
\* slot is left absent and the chunk's newest item is returned; not-ok
\* when there is no next chunk either.
C33_PopPolicy ==
  \A w \in Workers :
    LET r == CF_pop(cf, w)
        own == ChunkData(cf, cf.curr[w])
        queued == {i \in 1..Len(cf.Items) : cf.Items[i] # NULL}
    IN IF own # <<>>
       THEN /\ r.ret = <<TRUE, Newest(own)>>
            /\ r.s = [cf EXCEPT !.heap[cf.curr[w]].data = SubSeq(own, 1, Len(own) - 1)]
       ELSE /\ cf.curr[w] # NULL => ~r.s.heap[cf.curr[w]].live
            /\ IF queued # {}
               THEN LET i == CHOOSE j \in queued : \A k \in queued : j <= k
                        c == cf.Items[i]
                    IN /\ r.s.curr[w] = c
                       /\ r.ret = <<TRUE, Newest(ChunkData(cf, c))>>
                       /\ r.s.Items = SubSeq(cf.Items, i + 1, Len(cf.Items))
                       /\ r.s.next = cf.next
               ELSE IF cf.next[w] # NULL
               THEN /\ r.s.curr[w] = cf.next[w]
                    /\ r.s.next[w] = NULL
                    /\ r.ret = <<TRUE, Newest(ChunkData(cf, cf.next[w]))>>
               ELSE r.ret = <<FALSE, NoVal>> /\ r.s.curr[w] = NULL

\* The worklist was seeded by worker w and nothing else has been called.
CFJustSeeded(w) ==
  /\ cfLog.seeded
  /\ cfLog.last[w].op = "fill"
  /\ \A u \in Workers \ {w} : cfLog.last[u].op = "none"

\* C34: right after fill_initial on the fresh worklist, every seeded item
\* is in a chunk of the global FIFO (value by value as many as were
\* seeded), no worker has a current or next chunk, and, when anything was
\* seeded, a pop by any worker returns an item.
C34_SeedsQueued ==
  \A w \in Workers :
    CFJustSeeded(w) =>
      /\ \A v \in Vals : CFQueued(cf, v) = cfLog.pushed[v]
      /\ \A u \in Workers : cf.next[u] = NULL /\ cf.curr[u] = NULL
      /\ Enqueued(cfLog) > 0 => \A u \in Workers : CF_pop(cf, u).ret[1]

\* C34 witness: a range longer than one chunk was seeded: the global FIFO
\* holds a full chunk and a chunk with the rest.
C34_Witness ==
  \E w \in Workers :
    /\ CFJustSeeded(w)
    /\ Enqueued(cfLog) = MaxSeed
    /\ Len(cf.Items) >= 2
    /\ QueuedLen(cf, 1) = ChunkSize

\* C37: in every reachable state where empty() returns true for every
\* worker, for every pair of records handed to merge, the next and the
\* current chunk of both records are absent or empty and merge evaluates
\* its four assertions to true without calling empty() on a null pointer.
C37_MergeAssertionsHold ==
  (\A w \in Workers : CF_empty(cf, w)) =>
    \A p \in CFMergePairs :
      /\ \A w \in {p[1], p[2]} :
           ChunkData(cf, cf.next[w]) = <<>> /\ ChunkData(cf, cf.curr[w]) = <<>>
      /\ CF_merge(cf, p[1], p[2]) = "ok"

\* --------------------------------- TimingGraph::computeTopoL: the loop
\* The variables of the worklists, which the application loops leave alone.
coreVars == <<cfVars, stlVars, obVars, cwVars, feVars, seqVars, sanity>>

CoreFresh ==
  /\ CFFresh /\ pushToLocal = TRUE
  /\ STLFresh /\ stlKind = "LIFO"
  /\ OBFresh
  /\ CWFresh /\ cwKind = "PriQueue"
  /\ FEFresh
  /\ SeqFresh /\ stKind = "FIFO" /\ sanity = Sanity_init

\* The acyclic graphs over TNodes, each node numbered above its
\* predecessors.
TGGraphs == SUBSET {e \in TNodes \X TNodes : e[1] < e[2]}

InitTG ==
  /\ CoreFresh
  /\ \E edges \in TGGraphs : tg = TG_start(edges)
  /\ pf = PF_fresh /\ uh = UH_fresh

\* for_each hands node n of the worklist to worker w.
TGPop(w, n) ==
  /\ tg.pc[w].at = "idle"
  /\ tg.wl[n] > 0
  /\ tg' = [tg EXCEPT !.wl[n] = @ - 1,
                      !.pc[w] = [at |-> "own", n |-> n, rest |-> {}, my |-> 0]]
  /\ UNCHANGED <<coreVars, pf, uh>>

\* if (!data.flag.load()) return; size_t myTopoL = 1;
TGOwnFlag(w) ==
  /\ tg.pc[w].at = "own"
  /\ tg' = IF ~tg.flag[tg.pc[w].n]
           THEN [tg EXCEPT !.pc[w] = TGIdle]
           ELSE [tg EXCEPT !.pc[w] = [@ EXCEPT !.at = "flag",
                                               !.rest = TG_preds(tg, tg.pc[w].n),
                                               !.my = 1]]
  /\ UNCHANGED <<coreVars, pf, uh>>

\* The loop over the in-edges: if (predData.flag.load()) return;
TGPredFlag(w) ==
  /\ tg.pc[w].at = "flag"
  /\ tg' = IF tg.pc[w].rest = {}
           THEN [tg EXCEPT !.pc[w].at = "write"]
           ELSE IF tg.flag[Least(tg.pc[w].rest)]
                THEN [tg EXCEPT !.pc[w] = TGIdle]
                ELSE [tg EXCEPT !.pc[w].at = "level"]
  /\ UNCHANGED <<coreVars, pf, uh>>

\* else if (myTopoL <= predData.topoL) myTopoL = predData.topoL + 1;
TGPredLevel(w) ==
  /\ tg.pc[w].at = "level"
  /\ LET pred == Least(tg.pc[w].rest)
     IN tg' = [tg EXCEPT !.pc[w] = [@ EXCEPT !.at = "flag",
                                            !.rest = @ \ {pred},
                                            !.my = TG_nextLevel(@, tg.topoL[pred])]]
  /\ UNCHANGED <<coreVars, pf, uh>>

\* data.topoL = myTopoL;
TGWrite(w) ==
  /\ tg.pc[w].at = "write"
  /\ tg' = [tg EXCEPT !.topoL[tg.pc[w].n] = tg.pc[w].my,
                      !.written[tg.pc[w].n] = @ + 1,
                      !.pc[w].at = "store"]
  /\ UNCHANGED <<coreVars, pf, uh>>

\* data.flag.store(false);
TGStore(w) ==
  /\ tg.pc[w].at = "store"
  /\ tg' = [tg EXCEPT !.flag[tg.pc[w].n] = FALSE,
                      !.pc[w] = [@ EXCEPT !.at = "push",
                                          !.rest = TG_succs(tg, tg.pc[w].n)]]
  /\ UNCHANGED <<coreVars, pf, uh>>

\* The loop over the out-edges: ctx.push(g.getEdgeDst(e)); and the return.
TGPush(w) ==
  /\ tg.pc[w].at = "push"
  /\ tg' = IF tg.pc[w].rest = {}
           THEN [tg EXCEPT !.pc[w] = TGIdle]
           ELSE LET succ == Least(tg.pc[w].rest)
                IN [tg EXCEPT !.wl[succ] = @ + 1, !.pc[w].rest = @ \ {succ}]
  /\ UNCHANGED <<coreVars, pf, uh>>

NextTG ==
  \/ \E w \in Workers, n \in TNodes : TGPop(w, n)
  \/ \E w \in Workers : TGOwnFlag(w)
  \/ \E w \in Workers : TGPredFlag(w)
  \/ \E w \in Workers : TGPredLevel(w)
  \/ \E w \in Workers : TGWrite(w)
  \/ \E w \in Workers : TGStore(w)
  \/ \E w \in Workers : TGPush(w)

SpecTG == InitTG /\ [][NextTG]_vars

\* ------------------------------- TimingGraph::computeTopoL: claims
\* The for_each has finished: no item is left and no operator is running.
TGFinished ==
  /\ \A n \in TNodes : tg.wl[n] = 0
  /\ \A w \in Workers : tg.pc[w].at = "idle"

\* C38: on every acyclic graph and under every interleaving of the
\* workers' loads and stores, (1) a worker about to assign a node's level
\* has found every predecessor of the node done, and every level it reads
\* has been assigned; (2) every assignment to a node gives it the same
\* level; (3) when the for_each has finished, every node is done and the
\* level check finds no edge n -> succ with topoL(n) >= topoL(succ).
C38_Levelization ==
  /\ \A w \in Workers :
       /\ tg.pc[w].at \in {"write", "store"}
            => \A p \in TG_preds(tg, tg.pc[w].n) : ~tg.flag[p] /\ tg.written[p] > 0
       /\ tg.pc[w].at = "level" => tg.written[Least(tg.pc[w].rest)] > 0
       /\ (tg.pc[w].at = "write" /\ tg.written[tg.pc[w].n] > 0)
            => tg.pc[w].my = tg.topoL[tg.pc[w].n]
  /\ \A n \in TNodes : ~tg.flag[n] => tg.written[n] > 0
  /\ TGFinished =>
       /\ \A n \in TNodes : ~tg.flag[n]
       /\ TG_topoErrors(tg) = {}

\* C38 witness: the loop has finished on a graph where some node has two
\* predecessors of different levels, some node was assigned its level by
\* both workers, and the levels reach 3.
C38_Witness ==
  /\ TGFinished
  /\ \E n \in TNodes : tg.written[n] >= 2
  /\ \E n \in TNodes : tg.topoL[n] >= 3
  /\ \E n \in TNodes, p \in TNodes, q \in TNodes :
       /\ {p, q} \subseteq TG_preds(tg, n)
       /\ tg.topoL[p] < tg.topoL[q]

\* ------------------------------------ PreflowPush: the discharge loop
\* The input graphs: a capacity of the edge data type, not negative, on
\* every edge.
InitPF ==
  /\ CoreFresh
  /\ \E cap \in [PFEdges -> 0..CapMax] : pf = [PF_fresh EXCEPT !.cap = cap]
  /\ tg = TG_fresh /\ uh = UH_fresh

\* run(): initializePreflow(initial), single-threaded.
PFInitializePreflow ==
  /\ ~pf.started
  /\ pf' = PF_initializePreflow(pf, 0)
  /\ UNCHANGED <<coreVars, tg, uh>>

\* for_each hands src to the operator, which has acquired src and its
\* neighbours when it calls discharge: no other call of discharge touches
\* them until it returns, and the calls are taken one at a time.  discharge
\* returns at once for a node without excess or at height graph.size();
\* otherwise it enters while (true) with current = node.current.  (A run
\* is followed while the capacities are what a flow network can hold.)
PFPop(src) ==
  /\ pf.started /\ ~pf.asserted
  /\ pf.pc.at = "idle"
  /\ pf.wl[src] > 0
  /\ \A e \in PFEdges : pf.cap[e] >= 0
  /\ pf' = IF pf.excess[src] = 0 \/ pf.height[src] >= PFNodes
           THEN [pf EXCEPT !.wl[src] = @ - 1]
           ELSE [pf EXCEPT !.wl[src] = @ - 1,
                           !.pc = [at |-> "for", src |-> src, current |-> pf.current[src]]]
  /\ UNCHANGED <<coreVars, tg, uh>>

\* The edge the for loop of the running discharge stands at is one it
\* pushes flow along.
PFAdmissible ==
  /\ pf.pc.at = "for"
  /\ pf.pc.current < PF_degree
  /\ LET src == pf.pc.src
         dst == PF_edgeDst(src, pf.pc.current)
     IN pf.cap[<<src, dst>>] # 0 /\ pf.height[src] - 1 = pf.height[dst]

\* The for loop: continue past an edge without capacity or not downhill.
PFSkip ==
  /\ pf.pc.at = "for" /\ pf.pc.current < PF_degree
  /\ ~PFAdmissible
  /\ pf' = [pf EXCEPT !.pc.current = @ + 1]
  /\ UNCHANGED <<coreVars, tg, uh>>

\* The for loop: push flow; with the excess gone, node.current = current
\* and discharge returns.
PFPushFlow ==
  /\ PFAdmissible
  /\ LET src == pf.pc.src
         r == PF_pushFlow(pf, src, PF_edgeDst(src, pf.pc.current))
     IN pf' = IF r.s.excess[src] = 0
              THEN [r.s EXCEPT !.current[src] = pf.pc.current, !.pc = PFIdle]
              ELSE [r.s EXCEPT !.pc.current = @ + 1]
  /\ UNCHANGED <<coreVars, tg, uh>>

\* The for loop has run off the adjacency list: relabel(src); discharge
\* returns at height graph.size() and else goes round while (true).
PFRelabel ==
  /\ pf.pc.at = "for" /\ pf.pc.current >= PF_degree
  /\ LET src == pf.pc.src
         r == PF_relabel(pf, src)
     IN pf' = IF r.asserted \/ r.height[src] = PFNodes
              THEN [r EXCEPT !.pc = PFIdle]
              ELSE [r EXCEPT !.pc.current = r.current[src]]
  /\ UNCHANGED <<coreVars, tg, uh>>

NextPF ==
  \/ PFInitializePreflow
  \/ \E src \in PNodes : PFPop(src)
  \/ PFSkip
  \/ PFPushFlow
  \/ PFRelabel

SpecPF == InitPF /\ [][NextPF]_vars

\* ----------------------------------- PreflowPush: discharge, claims
\* C39: every push of flow by discharge along src -> dst moves
\* amount = min(excess(src), cap(src -> dst)): the assertion
\* node.excess >= amount holds, excess(src) goes down by amount and is not
\* negative afterwards, cap(src -> dst) goes down by amount, excess(dst)
\* and cap(dst -> src) go up by amount, and the only change of the
\* worklist is that dst is added once, which happens only if dst is
\* neither source nor sink and had no excess.
C39_FlowConservation ==
  [][PFAdmissible =>
       LET src == pf.pc.src
           dst == PF_edgeDst(src, pf.pc.current)
           amount == Min2(pf.excess[src], pf.cap[<<src, dst>>])
       IN /\ pf.excess[src] >= amount
          /\ pf'.excess[src] = pf.excess[src] - amount
          /\ pf'.excess[src] >= 0
          /\ pf'.excess[dst] = pf.excess[dst] + amount
          /\ pf'.cap[<<src, dst>>] = pf.cap[<<src, dst>>] - amount
          /\ pf'.cap[<<dst, src>>] = pf.cap[<<dst, src>>] + amount
          /\ \A n \in PNodes :
               pf'.wl[n] # pf.wl[n] =>
                 /\ n = dst /\ pf'.wl[n] = pf.wl[n] + 1
                 /\ dst # PF_source /\ dst # PF_sink /\ pf.excess[dst] = 0]_vars

\* --------------------------- PreflowPush::UpdateHeights: the loop
\* The residual graphs over UNodes.  (An edge into the sink is left out:
\* the sink has height 0, which no newHeight is below.)
UHGraphs == SUBSET {e \in UNodes \X UNodes : e[1] # e[2] /\ e[2] # UH_sink}

InitUH ==
  /\ CoreFresh
  /\ \E res \in UHGraphs : uh = UH_start(res)
  /\ tg = TG_fresh /\ pf = PF_fresh

\* for_each hands src to worker w; the operator starts its loop over the
\* edges of src whose reverse has capacity left.
UHPop(w, src) ==
  /\ uh.pc[w].at = "idle"
  /\ uh.wl[src] > 0
  /\ uh' = [uh EXCEPT !.wl[src] = @ - 1,
                      !.pc[w] = [UHIdle EXCEPT !.at = "edge", !.src = src,
                                               !.rest = {e[2] : e \in {d \in uh.res : d[1] = src}}]]
  /\ UNCHANGED <<coreVars, tg, pf>>

\* The next edge: int newHeight = getData(src).height + 1; past the last
\* edge the operator returns.
UHEdge(w) ==
  /\ uh.pc[w].at = "edge"
  /\ uh' = IF uh.pc[w].rest = {}
           THEN [uh EXCEPT !.pc[w] = UHIdle]
           ELSE [uh EXCEPT !.pc[w] = [@ EXCEPT !.at = "read",
                                               !.dst = Least(uh.pc[w].rest),
                                               !.newHeight = uh.height[uh.pc[w].src] + 1,
                                               !.tries = 0]]
  /\ UNCHANGED <<coreVars, tg, pf>>

\* while (newHeight < (oldHeight = node.height))
UHRead(w) ==
  /\ uh.pc[w].at = "read"
  /\ LET old == uh.height[uh.pc[w].dst]
     IN uh' = IF uh.pc[w].newHeight < old
              THEN [uh EXCEPT !.pc[w] = [@ EXCEPT !.at = "cas", !.oldHeight = old]]
              ELSE [uh EXCEPT !.pc[w] = [@ EXCEPT !.at = "edge", !.oldHeight = old,
                                                  !.rest = @ \ {uh.pc[w].dst}]]
  /\ UNCHANGED <<coreVars, tg, pf>>

\* if (__sync_bool_compare_and_swap(&node.height, oldHeight, newHeight))
UHCas(w) ==
  /\ uh.pc[w].at = "cas"
  /\ LET r == UH_cas(uh.height, uh.pc[w].dst, uh.pc[w].oldHeight, uh.pc[w].newHeight)
     IN uh' = [uh EXCEPT !.height = r.height,
                         !.pc[w] = [@ EXCEPT !.at = IF r.ok THEN "push" ELSE "read",
                                             !.tries = @ + 1]]
  /\ UNCHANGED <<coreVars, tg, pf>>

\* ctx.push(dst); break;
UHPush(w) ==
  /\ uh.pc[w].at = "push"
  /\ uh' = [uh EXCEPT !.wl[uh.pc[w].dst] = @ + 1,
                      !.pc[w] = [@ EXCEPT !.at = "edge", !.rest = @ \ {uh.pc[w].dst}]]
  /\ UNCHANGED <<coreVars, tg, pf>>

NextUH ==
  \/ \E w \in Workers, src \in UNodes : UHPop(w, src)
  \/ \E w \in Workers : UHEdge(w)
  \/ \E w \in Workers : UHRead(w)
  \/ \E w \in Workers : UHCas(w)
  \/ \E w \in Workers : UHPush(w)

SpecUH == InitUH /\ [][NextUH]_vars

\* ---------------------------- PreflowPush::UpdateHeights: claims
\* Worker w's compare-and-swap replaces the height of its dst in this step.
UHWins(w) ==
  /\ uh.pc[w].at = "cas"
  /\ uh'.pc[w] # uh.pc[w]
  /\ uh.height[uh.pc[w].dst] = uh.pc[w].oldHeight
  /\ uh'.height = [uh.height EXCEPT ![uh.pc[w].dst] = uh.pc[w].newHeight]

\* C40: under every interleaving of the workers' steps, (1) no step
\* raises the height of a node; (2) a worker comes to ctx.push(dst) exactly
\* by a step in which its own compare-and-swap replaced dst's height by
\* the newHeight it computed as height(src) + 1, a step adds a node to
\* the worklist exactly when it is the ctx.push(dst) of such a worker,
\* and the height of src is not above newHeight - 1 by then; (3) a worker
\* attempts a compare-and-swap, the first or a retry, only with newHeight
\* lower than the height of dst it has just read, and a failed one takes
\* it back to reading dst's height.
C40_HeightsByCAS ==
  [][/\ \A n \in UNodes : uh'.height[n] <= uh.height[n]
     /\ \A w \in Workers :
          /\ (uh'.pc[w].at = "push" /\ uh.pc[w].at # "push") <=> UHWins(w)
          /\ uh'.pc[w].at = "push" =>
               /\ uh'.height[uh'.pc[w].src] + 1 <= uh'.pc[w].newHeight
               /\ uh'.height[uh'.pc[w].dst] <= uh'.pc[w].newHeight
          /\ uh'.pc[w].at = "cas" => uh'.pc[w].newHeight < uh'.pc[w].oldHeight
          /\ (uh.pc[w].at = "cas" /\ uh'.pc[w] # uh.pc[w] /\ ~UHWins(w))
               => (uh'.pc[w].at = "read" /\ uh'.height = uh.height)
          /\ (uh.pc[w].at = "read" /\ uh'.pc[w] # uh.pc[w])
               => (uh'.pc[w].at = "cas" <=> uh.pc[w].newHeight < uh.height[uh.pc[w].dst])
     /\ \A n \in UNodes :
          /\ uh'.wl[n] > uh.wl[n] <=>
               \E w \in Workers :
                 uh.pc[w].at = "push" /\ uh.pc[w].dst = n /\ uh'.pc[w].at = "edge"
          /\ uh'.wl[n] <= uh.wl[n] + 1]_vars

\* C40 witness: a worker is at ctx.push(dst) after a compare-and-swap of
\* its own that failed and one that succeeded, while the other worker is
\* at ctx.push of the same dst.
C40_Witness ==
  \E w \in Workers, u \in Workers :
    /\ w # u
    /\ uh.pc[w].at = "push" /\ uh.pc[w].tries = 2
    /\ uh.pc[u].at = "push" /\ uh.pc[u].dst = uh.pc[w].dst

====
